---- MODULE Spec2Model ----
(***************************************************************************)
(* A model of the Solidity vulnerability scanner: SolidityParser           *)
(* (parser.py), the four detectors (detectors/*.py), scan_file and         *)
(* calculate_score and main (cli.py) and Reporter.get_exit_code            *)
(* (reporter.py).                                                          *)
(*                                                                         *)
(* Representation of text.  A source text is a sequence of lines, as       *)
(* source_code.split("\n") gives it, and a line is a sequence of text      *)
(* fragments; the line's text is its fragments joined by one blank.  A     *)
(* fragment is the TLA+ string of its own characters, so Len(tok) is its   *)
(* length in characters.  The scanner reads text only through regular      *)
(* expressions, substring tests and a character loop over braces; the      *)
(* tables of the first section give, for every fragment of the lexicon,    *)
(* what each of these finds inside the fragment (match offsets are         *)
(* 0-based, as Python's match.start()).  No pattern of the code matches    *)
(* across the blank or the line break between two fragments of the         *)
(* lexicon, except `require\s*\(.*msg\.sender` and the two comment         *)
(* patterns, which are composed from fragments below.                      *)
(***************************************************************************)
EXTENDS Integers, Sequences, FiniteSets, TLC

VARIABLES
  lines,         \* SolidityParser.lines: source_code.split("\n")
  contracts,     \* SolidityParser.contracts
  pc,            \* position in scan_file / parse
  idx,           \* parse: index of `for contract in self.contracts`
  parse_result,  \* what parse() gave its caller: [raised, value]
  det,           \* scan_file: index of `for detector in detectors`
  findings,      \* findings[d]: detector d's self.findings
  all_findings,  \* scan_file: all_findings
  exit_code,     \* scan_file: the value returned (-1: not returned yet)
  scored,        \* the finding list given to calculate_score
  score,         \* the value calculate_score returned for it
  parse_calls,   \* the number of parse() calls begun on the parser
  first_parse,   \* what the first parse() call returned, as it was then
  sol_files,     \* main: the files find_solidity_files gave, as texts
  results,       \* main: the values scan_file returned so far
  main_exit,     \* main: exit_code
  main_pc,       \* position in main
  heap,          \* the list objects a detector instance has made
  self_findings, \* the detector's self.findings: an index into heap
  invocations    \* the detect() invocations on the detector: [source, todo,
                 \* pc, ret], ret the index of the list object returned

\* the variables of a second parse() call, of main and of a detector instance
reparse_vars == <<parse_calls, first_parse>>
main_vars == <<sol_files, results, main_exit, main_pc>>
object_vars == <<heap, self_findings, invocations>>

vars == <<lines, contracts, pc, idx, parse_result, det, findings, all_findings,
          exit_code, scored, score, reparse_vars, main_vars, object_vars>>

(***************************************************************************)
(* Lexicon tables                                                          *)
(***************************************************************************)
\* the "{" and "}" characters of a fragment, in order (parser.py:115-120)
TokBraces(tok) ==
  CASE tok = "{" -> <<"{">>
    [] tok = "}" -> <<"}">>
    [] tok = "contract A {" -> <<"{">>
    [] tok = "contract B {" -> <<"{">>
    [] tok = "modifier nonReentrant() {" -> <<"{">>
    [] tok = "function f() public {" -> <<"{">>
    [] tok = "function g(uint v) external payable {" -> <<"{">>
    [] tok = "function h(uint v) public view returns (uint) {" -> <<"{">>
    [] tok = "function preview(uint v) public {" -> <<"{">>
    [] tok = "function w(uint v) public nonReentrant {" -> <<"{">>
    [] tok = "function setOwner(uint v) public {" -> <<"{">>
    [] tok = "function withdraw(uint v) public {" -> <<"{">>
    [] tok = "t.call{value: v}(d);" -> <<"{", "}">>
    [] tok = "function p(uint v) public pure returns (uint) {" -> <<"{">>
    [] tok = "function q(uint v) private payable {" -> <<"{">>
    [] OTHER -> <<>>

\* group(1) of contract\s+(\w+)\s*(?:is\s+[\w\s,]+)?\s*\{ (parser.py:103-108)
contract_pattern(tok) ==
  CASE tok = "contract A {" -> "A"
    [] tok = "contract B {" -> "B"
    [] OTHER -> ""

\* group(1) of
\* function\s+(\w+)\s*\([^)]*\)\s*(?:public|private|internal|external)?\s*(?:payable|view|pure)?\s*(?:returns\s*\([^)]*\))?\s*(?:[^{]*)?\{
\* (parser.py:229-237)
function_pattern(tok) ==
  CASE tok = "function f() public {" -> "f"
    [] tok = "function g(uint v) external payable {" -> "g"
    [] tok = "function h(uint v) public view returns (uint) {" -> "h"
    [] tok = "function preview(uint v) public {" -> "preview"
    [] tok = "function w(uint v) public nonReentrant {" -> "w"
    [] tok = "function setOwner(uint v) public {" -> "setOwner"
    [] tok = "function withdraw(uint v) public {" -> "withdraw"
    [] tok = "function p(uint v) public pure returns (uint) {" -> "p"
    [] tok = "function q(uint v) private payable {" -> "q"
    [] OTHER -> ""

\* group(1) of modifier\s+(\w+)\s*\([^)]*\)\s*\{ (parser.py:304-308)
modifier_pattern(tok) ==
  CASE tok = "modifier nonReentrant() {" -> "nonReentrant"
    [] OTHER -> ""

\* groups 2 (name) and 1 (type) of re.search(var_pattern, line)
\* (parser.py:275-285)
var_pattern(tok) ==
  CASE tok = "uint x;" -> [name |-> "x", type |-> "uint"]
    [] tok = "uint public y;" -> [name |-> "y", type |-> "public"]
    [] OTHER -> [name |-> "", type |-> ""]

\* starts of the matches of
\* \.(call|send|transfer|delegatecall)(\s*\{[^}]*\})?\s*\(
\* (detectors/reentrancy.py:63-66)
external_call_re(tok) ==
  CASE tok = "t.call(d);" -> <<1>>
    [] tok = "t.call{value: v}(d);" -> <<1>>
    [] tok = "t.send(v);" -> <<1>>
    [] tok = "t.transfer(v);" -> <<1>>
    [] tok = "t.delegatecall(d);" -> <<1>>
    [] tok = "(bool ok, ) = t.call(d);" -> <<15>>
    [] OTHER -> <<>>

\* starts of the matches of =\s*[^=] (detectors/reentrancy.py:220-223)
state_change_re(tok) ==
  CASE tok = "(bool ok, ) = t.call(d);" -> <<12>>
    [] tok = "x = 1;" -> <<2>>
    [] tok = "x -= v;" -> <<3>>
    [] tok = "y += v;" -> <<3>>
    [] tok = "c = a + b;" -> <<2>>
    [] tok = "c = a - b;" -> <<2>>
    [] tok = "c = a * b;" -> <<2>>
    [] tok = "require(x >= v);" -> <<11>>
    [] tok = "require(msg.sender == o);" -> <<20>>
    [] tok = "o = msg.sender;" -> <<2>>
    [] tok = "o = tx.origin;" -> <<2>>
    [] tok = "a = 0x742d35Cc6634C0532925a3b844Bc9e7595f0bEb0;" -> <<2>>
    [] tok = "k = 0x9f86d081884c7d659a2feaa0c55ad015a3bf4f1b2b0b822cd15d6c15b0f00a08;" -> <<2>>
    [] tok = "r = block.timestamp;" -> <<2>>
    [] tok = "r = block.number;" -> <<2>>
    [] tok = "r = blockhash(n);" -> <<2>>
    [] tok = "r = block.difficulty;" -> <<2>>
    [] tok = "r = block.timestamp + block.timestamp;" -> <<2>>
    [] tok = "(bool ok, ) = r;" -> <<12>>
    [] OTHER -> <<>>

\* starts of the matches of msg\.sender (detectors/reentrancy.py:227-230)
msg_sender_re(tok) ==
  CASE tok = "require(msg.sender == o);" -> <<8>>
    [] tok = "o = msg.sender;" -> <<4>>
    [] OTHER -> <<>>

\* starts of the matches of function\s+\w+\s*\([^)]+\w+[^)]*\)
\* (detectors/validation.py:55)
has_params_re(tok) ==
  CASE tok = "function g(uint v) external payable {" -> <<0>>
    [] tok = "function h(uint v) public view returns (uint) {" -> <<0>>
    [] tok = "function preview(uint v) public {" -> <<0>>
    [] tok = "function w(uint v) public nonReentrant {" -> <<0>>
    [] tok = "function setOwner(uint v) public {" -> <<0>>
    [] tok = "function withdraw(uint v) public {" -> <<0>>
    [] tok = "function p(uint v) public pure returns (uint) {" -> <<0>>
    [] tok = "function q(uint v) private payable {" -> <<0>>
    [] OTHER -> <<>>

\* starts of the matches of (require|revert|assert)\s*\(
\* (detectors/validation.py:61)
validation_re(tok) ==
  CASE tok = "require(ok);" -> <<0>>
    [] tok = "require(x >= v);" -> <<0>>
    [] tok = "require(msg.sender == o);" -> <<0>>
    [] OTHER -> <<>>

\* starts of the matches of =\s*[^=]|\.(call|send|transfer)\s*\(
\* (detectors/validation.py:64)
state_change_or_call_re(tok) ==
  CASE tok = "t.call(d);" -> <<1>>
    [] tok = "t.send(v);" -> <<1>>
    [] tok = "t.transfer(v);" -> <<1>>
    [] tok = "(bool ok, ) = t.call(d);" -> <<12, 15>>
    [] tok = "x = 1;" -> <<2>>
    [] tok = "x -= v;" -> <<3>>
    [] tok = "y += v;" -> <<3>>
    [] tok = "c = a + b;" -> <<2>>
    [] tok = "c = a - b;" -> <<2>>
    [] tok = "c = a * b;" -> <<2>>
    [] tok = "require(x >= v);" -> <<11>>
    [] tok = "require(msg.sender == o);" -> <<20>>
    [] tok = "o = msg.sender;" -> <<2>>
    [] tok = "o = tx.origin;" -> <<2>>
    [] tok = "a = 0x742d35Cc6634C0532925a3b844Bc9e7595f0bEb0;" -> <<2>>
    [] tok = "k = 0x9f86d081884c7d659a2feaa0c55ad015a3bf4f1b2b0b822cd15d6c15b0f00a08;" -> <<2>>
    [] tok = "r = block.timestamp;" -> <<2>>
    [] tok = "r = block.number;" -> <<2>>
    [] tok = "r = blockhash(n);" -> <<2>>
    [] tok = "r = block.difficulty;" -> <<2>>
    [] tok = "r = block.timestamp + block.timestamp;" -> <<2>>
    [] tok = "(bool ok, ) = r;" -> <<12>>
    [] OTHER -> <<>>

\* starts of the matches of 0x[a-fA-F0-9]{40}
\* (detectors/validation.py:147-151)
address_pattern(tok) ==
  CASE tok = "a = 0x742d35Cc6634C0532925a3b844Bc9e7595f0bEb0;" -> <<4>>
    [] tok = "k = 0x9f86d081884c7d659a2feaa0c55ad015a3bf4f1b2b0b822cd15d6c15b0f00a08;" -> <<4>>
    [] OTHER -> <<>>

\* starts of the matches of emit\s+\w+\s*\(
\* (detectors/bad_patterns.py:139-142)
event_re(tok) ==
  CASE tok = "emit E(v);" -> <<0>>
    [] OTHER -> <<>>

\* starts of the matches of \btx\.origin\b (detectors/bad_patterns.py:172)
tx_origin_re(tok) ==
  CASE tok = "o = tx.origin;" -> <<4>>
    [] OTHER -> <<>>

\* starts of the matches of \.delegatecall\s*\(
\* (detectors/insecure_calls.py:42)
delegatecall_re(tok) ==
  CASE tok = "t.delegatecall(d);" -> <<1>>
    [] OTHER -> <<>>

\* starts of the matches of msg\.data|msg\.sender|abi\.decode
\* (detectors/insecure_calls.py:44-47)
user_input_re(tok) ==
  CASE tok = "require(msg.sender == o);" -> <<8>>
    [] tok = "o = msg.sender;" -> <<4>>
    [] OTHER -> <<>>

\* starts of the matches of (\w+)\.(call|send|delegatecall)\s*\(
\* (detectors/insecure_calls.py:90-95)
unchecked_call_pattern(tok) ==
  CASE tok = "t.call(d);" -> <<0>>
    [] tok = "t.send(v);" -> <<0>>
    [] tok = "t.delegatecall(d);" -> <<0>>
    [] tok = "(bool ok, ) = t.call(d);" -> <<14>>
    [] OTHER -> <<>>

\* match.group(0) of the matches of 0x[a-fA-F0-9]{40}
\* (detectors/validation.py:151-153)
address_group(tok) ==
  CASE tok = "a = 0x742d35Cc6634C0532925a3b844Bc9e7595f0bEb0;" -> <<"0x742d35Cc6634C0532925a3b844Bc9e7595f0bEb0">>
    [] tok = "k = 0x9f86d081884c7d659a2feaa0c55ad015a3bf4f1b2b0b822cd15d6c15b0f00a08;" -> <<"0x9f86d081884c7d659a2feaa0c55ad015a3bf4f1b">>
    [] OTHER -> <<>>

\* <<start, least end>> of the matches of require\s*\(
\* (detectors/insecure_calls.py:111-114)
require_re_span(tok) ==
  CASE tok = "require(ok);" -> <<<<0, 8>>>>
    [] tok = "require(x >= v);" -> <<<<0, 8>>>>
    [] tok = "require(msg.sender == o);" -> <<<<0, 8>>>>
    [] OTHER -> <<>>

\* <<start, least end>> of the matches of \(bool\s+\w+
\* (detectors/insecure_calls.py:104-107)
return_check_re_span(tok) ==
  CASE tok = "(bool ok, ) = t.call(d);" -> <<<<0, 7>>>>
    [] tok = "(bool ok, ) = r;" -> <<<<0, 7>>>>
    [] OTHER -> <<>>

\* starts of the matches of pattern i of: \.call\s*\{value:  \.call\s*\( 
\* \.call\.value\s*\(  \.send\s*\(  \.transfer\s*\(
\* (detectors/reentrancy.py:105-111)
call_patterns(i, tok) ==
  CASE i = 1 /\ tok = "t.call{value: v}(d);" -> <<1>>
    [] i = 2 /\ tok = "t.call(d);" -> <<1>>
    [] i = 2 /\ tok = "(bool ok, ) = t.call(d);" -> <<15>>
    [] i = 3 /\ tok = "t.call.value(v)(d);" -> <<1>>
    [] i = 4 /\ tok = "t.send(v);" -> <<1>>
    [] i = 5 /\ tok = "t.transfer(v);" -> <<1>>
    [] OTHER -> <<>>

\* starts of the matches of pattern i of: \.call\.value\s*\(  \.send\s*\( 
\* \.transfer\s*\( (detectors/reentrancy.py:179-183)
deprecated_patterns(i, tok) ==
  CASE i = 1 /\ tok = "t.call.value(v)(d);" -> <<1>>
    [] i = 2 /\ tok = "t.send(v);" -> <<1>>
    [] i = 3 /\ tok = "t.transfer(v);" -> <<1>>
    [] OTHER -> <<>>

\* starts of the matches of pattern i of: (\w+)\s*\+\s*(\w+) 
\* (\w+)\s*-\s*(\w+)  (\w+)\s*\*\s*(\w+) (detectors/validation.py:105-109)
arithmetic_patterns(i, tok) ==
  CASE i = 1 /\ tok = "c = a + b;" -> <<4>>
    [] i = 1 /\ tok = "r = block.timestamp + block.timestamp;" -> <<10>>
    [] i = 2 /\ tok = "c = a - b;" -> <<4>>
    [] i = 3 /\ tok = "c = a * b;" -> <<4>>
    [] OTHER -> <<>>

\* starts of the matches of pattern i of: block\.timestamp  block\.number 
\* blockhash\s*\(  block\.difficulty (detectors/bad_patterns.py:48-53)
insecure_patterns(i, tok) ==
  CASE i = 1 /\ tok = "r = block.timestamp;" -> <<4>>
    [] i = 1 /\ tok = "r = block.timestamp + block.timestamp;" -> <<4, 22>>
    [] i = 2 /\ tok = "r = block.number;" -> <<4>>
    [] i = 3 /\ tok = "r = blockhash(n);" -> <<4>>
    [] i = 4 /\ tok = "r = block.difficulty;" -> <<4>>
    [] OTHER -> <<>>

\* starts of the matches of \b<var_name>\s*(?:\[[^\]]*\])?\s*[-+]?=
\* (detectors/reentrancy.py:130-134)
write_pattern(var_name, tok) ==
  CASE var_name = "x" /\ tok = "x = 1;" -> <<0>>
    [] var_name = "x" /\ tok = "x -= v;" -> <<0>>
    [] var_name = "y" /\ tok = "y += v;" -> <<0>>
    [] OTHER -> <<>>

\* offsets at which a fragment holds the text sub (parser.py:177-185)
StrFind(sub, tok) ==
  CASE sub = "payable" /\ tok = "function g(uint v) external payable {" -> <<28>>
    [] sub = "payable" /\ tok = "function q(uint v) private payable {" -> <<27>>
    [] sub = "view" /\ tok = "function h(uint v) public view returns (uint) {" -> <<26>>
    [] sub = "view" /\ tok = "function preview(uint v) public {" -> <<12>>
    [] sub = "pure" /\ tok = "function p(uint v) public pure returns (uint) {" -> <<26>>
    [] sub = "public" /\ tok = "uint public y;" -> <<5>>
    [] sub = "public" /\ tok = "function f() public {" -> <<13>>
    [] sub = "public" /\ tok = "function h(uint v) public view returns (uint) {" -> <<19>>
    [] sub = "public" /\ tok = "function preview(uint v) public {" -> <<25>>
    [] sub = "public" /\ tok = "function w(uint v) public nonReentrant {" -> <<19>>
    [] sub = "public" /\ tok = "function setOwner(uint v) public {" -> <<26>>
    [] sub = "public" /\ tok = "function withdraw(uint v) public {" -> <<26>>
    [] sub = "public" /\ tok = "function p(uint v) public pure returns (uint) {" -> <<19>>
    [] sub = "private" /\ tok = "function q(uint v) private payable {" -> <<19>>
    [] sub = "external" /\ tok = "function g(uint v) external payable {" -> <<19>>
    [] sub = "function" /\ tok = "function f() public {" -> <<0>>
    [] sub = "function" /\ tok = "function g(uint v) external payable {" -> <<0>>
    [] sub = "function" /\ tok = "function h(uint v) public view returns (uint) {" -> <<0>>
    [] sub = "function" /\ tok = "function preview(uint v) public {" -> <<0>>
    [] sub = "function" /\ tok = "function w(uint v) public nonReentrant {" -> <<0>>
    [] sub = "function" /\ tok = "function setOwner(uint v) public {" -> <<0>>
    [] sub = "function" /\ tok = "function withdraw(uint v) public {" -> <<0>>
    [] sub = "function" /\ tok = "function p(uint v) public pure returns (uint) {" -> <<0>>
    [] sub = "function" /\ tok = "function q(uint v) private payable {" -> <<0>>
    [] sub = "require" /\ tok = "require(ok);" -> <<0>>
    [] sub = "require" /\ tok = "require(x >= v);" -> <<0>>
    [] sub = "require" /\ tok = "require(msg.sender == o);" -> <<0>>
    [] sub = "//" /\ tok = "//" -> <<0>>
    [] sub = "/*" /\ tok = "/*" -> <<0>>
    [] sub = "*/" /\ tok = "*/" -> <<0>>
    [] sub = "tx.origin" /\ tok = "o = tx.origin;" -> <<4>>
    [] sub = ")" /\ tok = "modifier nonReentrant() {" -> <<22>>
    [] sub = ")" /\ tok = "function f() public {" -> <<11>>
    [] sub = ")" /\ tok = "function g(uint v) external payable {" -> <<17>>
    [] sub = ")" /\ tok = "function h(uint v) public view returns (uint) {" -> <<17, 44>>
    [] sub = ")" /\ tok = "function preview(uint v) public {" -> <<23>>
    [] sub = ")" /\ tok = "function w(uint v) public nonReentrant {" -> <<17>>
    [] sub = ")" /\ tok = "function setOwner(uint v) public {" -> <<24>>
    [] sub = ")" /\ tok = "function withdraw(uint v) public {" -> <<24>>
    [] sub = ")" /\ tok = "t.call(d);" -> <<8>>
    [] sub = ")" /\ tok = "t.call{value: v}(d);" -> <<18>>
    [] sub = ")" /\ tok = "t.call.value(v)(d);" -> <<14, 17>>
    [] sub = ")" /\ tok = "t.send(v);" -> <<8>>
    [] sub = ")" /\ tok = "t.transfer(v);" -> <<12>>
    [] sub = ")" /\ tok = "t.delegatecall(d);" -> <<16>>
    [] sub = ")" /\ tok = "(bool ok, ) = t.call(d);" -> <<10, 22>>
    [] sub = ")" /\ tok = "require(ok);" -> <<10>>
    [] sub = ")" /\ tok = "require(x >= v);" -> <<14>>
    [] sub = ")" /\ tok = "require(msg.sender == o);" -> <<23>>
    [] sub = ")" /\ tok = "r = blockhash(n);" -> <<15>>
    [] sub = ")" /\ tok = "function p(uint v) public pure returns (uint) {" -> <<17, 44>>
    [] sub = ")" /\ tok = "function q(uint v) private payable {" -> <<17>>
    [] sub = ")" /\ tok = "(bool ok, ) = r;" -> <<10>>
    [] sub = ")" /\ tok = "emit E(v);" -> <<8>>
    [] sub = "{" /\ tok = "{" -> <<0>>
    [] sub = "{" /\ tok = "contract A {" -> <<11>>
    [] sub = "{" /\ tok = "contract B {" -> <<11>>
    [] sub = "{" /\ tok = "modifier nonReentrant() {" -> <<24>>
    [] sub = "{" /\ tok = "function f() public {" -> <<20>>
    [] sub = "{" /\ tok = "function g(uint v) external payable {" -> <<36>>
    [] sub = "{" /\ tok = "function h(uint v) public view returns (uint) {" -> <<46>>
    [] sub = "{" /\ tok = "function preview(uint v) public {" -> <<32>>
    [] sub = "{" /\ tok = "function w(uint v) public nonReentrant {" -> <<39>>
    [] sub = "{" /\ tok = "function setOwner(uint v) public {" -> <<33>>
    [] sub = "{" /\ tok = "function withdraw(uint v) public {" -> <<33>>
    [] sub = "{" /\ tok = "t.call{value: v}(d);" -> <<6>>
    [] sub = "{" /\ tok = "function p(uint v) public pure returns (uint) {" -> <<46>>
    [] sub = "{" /\ tok = "function q(uint v) private payable {" -> <<35>>
    [] sub = "()" /\ tok = "modifier nonReentrant() {" -> <<21>>
    [] sub = "()" /\ tok = "function f() public {" -> <<10>>
    [] sub = "(bool " /\ tok = "(bool ok, ) = t.call(d);" -> <<0>>
    [] sub = "(bool " /\ tok = "(bool ok, ) = r;" -> <<0>>
    [] sub = "require(" /\ tok = "require(ok);" -> <<0>>
    [] sub = "require(" /\ tok = "require(x >= v);" -> <<0>>
    [] sub = "require(" /\ tok = "require(msg.sender == o);" -> <<0>>
    [] sub = "0x742d35Cc6634C0532925a3b844Bc9e7595f0bEb0" /\ tok = "a = 0x742d35Cc6634C0532925a3b844Bc9e7595f0bEb0;" -> <<4>>
    [] sub = "0x9f86d081884c7d659a2feaa0c55ad015a3bf4f1b" /\ tok = "k = 0x9f86d081884c7d659a2feaa0c55ad015a3bf4f1b2b0b822cd15d6c15b0f00a08;" -> <<4>>
    [] OTHER -> <<>>

\* <<major, minor>> of pragma\s+solidity\s+([\d.]+), <<-1>> when int()
\* raises, <<>> without a match (detectors/validation.py:93-102)
version_match(tok) ==
  CASE tok = "pragma solidity 0.8.0;" -> <<0, 8>>
    [] tok = "pragma solidity 0.7.6;" -> <<0, 7>>
    [] OTHER -> <<>>

\* any(keyword.lower() in func.name.lower() for keyword in admin_keywords)
\* (detectors/bad_patterns.py:85-87)
is_admin_function(name) ==
  CASE name = "setOwner" -> TRUE
    [] OTHER -> FALSE

\* any(keyword in func.name.lower() for keyword in important_keywords)
\* (detectors/bad_patterns.py:145-146)
is_important(name) ==
  CASE name = "withdraw" -> TRUE
    [] OTHER -> FALSE

\* the identifiers left of a fragment's text behind its first ")", keywords
\* removed; stop: a "{" follows (parser.py:140-163)
ModifiersAfterParen(tok) ==
  CASE tok = "modifier nonReentrant() {" -> [ids |-> <<>>, stop |-> TRUE]
    [] tok = "function f() public {" -> [ids |-> <<>>, stop |-> TRUE]
    [] tok = "function g(uint v) external payable {" -> [ids |-> <<>>, stop |-> TRUE]
    [] tok = "function h(uint v) public view returns (uint) {" -> [ids |-> <<"uint">>, stop |-> TRUE]
    [] tok = "function preview(uint v) public {" -> [ids |-> <<>>, stop |-> TRUE]
    [] tok = "function w(uint v) public nonReentrant {" -> [ids |-> <<"nonReentrant">>, stop |-> TRUE]
    [] tok = "function setOwner(uint v) public {" -> [ids |-> <<>>, stop |-> TRUE]
    [] tok = "function withdraw(uint v) public {" -> [ids |-> <<>>, stop |-> TRUE]
    [] tok = "t.call(d);" -> [ids |-> <<>>, stop |-> FALSE]
    [] tok = "t.call{value: v}(d);" -> [ids |-> <<>>, stop |-> FALSE]
    [] tok = "t.call.value(v)(d);" -> [ids |-> <<"d">>, stop |-> FALSE]
    [] tok = "t.send(v);" -> [ids |-> <<>>, stop |-> FALSE]
    [] tok = "t.transfer(v);" -> [ids |-> <<>>, stop |-> FALSE]
    [] tok = "t.delegatecall(d);" -> [ids |-> <<>>, stop |-> FALSE]
    [] tok = "(bool ok, ) = t.call(d);" -> [ids |-> <<"t", "call", "d">>, stop |-> FALSE]
    [] tok = "require(ok);" -> [ids |-> <<>>, stop |-> FALSE]
    [] tok = "require(x >= v);" -> [ids |-> <<>>, stop |-> FALSE]
    [] tok = "require(msg.sender == o);" -> [ids |-> <<>>, stop |-> FALSE]
    [] tok = "r = blockhash(n);" -> [ids |-> <<>>, stop |-> FALSE]
    [] tok = "function p(uint v) public pure returns (uint) {" -> [ids |-> <<"uint">>, stop |-> TRUE]
    [] tok = "function q(uint v) private payable {" -> [ids |-> <<>>, stop |-> TRUE]
    [] tok = "(bool ok, ) = r;" -> [ids |-> <<"r">>, stop |-> FALSE]
    [] tok = "emit E(v);" -> [ids |-> <<>>, stop |-> FALSE]
    [] OTHER -> [ids |-> <<>>, stop |-> FALSE]

\* the identifiers left of a fragment up to its first "{", keywords removed;
\* stop: it holds a "{" (parser.py:143-163)
ModifiersBeforeBrace(tok) ==
  CASE tok = "{" -> [ids |-> <<>>, stop |-> TRUE]
    [] tok = "contract A {" -> [ids |-> <<"contract", "A">>, stop |-> TRUE]
    [] tok = "contract B {" -> [ids |-> <<"contract", "B">>, stop |-> TRUE]
    [] tok = "uint x;" -> [ids |-> <<"uint", "x">>, stop |-> FALSE]
    [] tok = "uint public y;" -> [ids |-> <<"uint", "y">>, stop |-> FALSE]
    [] tok = "modifier nonReentrant() {" -> [ids |-> <<"modifier", "nonReentrant">>, stop |-> TRUE]
    [] tok = "function f() public {" -> [ids |-> <<"f">>, stop |-> TRUE]
    [] tok = "function g(uint v) external payable {" -> [ids |-> <<"g", "uint", "v">>, stop |-> TRUE]
    [] tok = "function h(uint v) public view returns (uint) {" -> [ids |-> <<"h", "uint", "v", "uint">>, stop |-> TRUE]
    [] tok = "function preview(uint v) public {" -> [ids |-> <<"preview", "uint", "v">>, stop |-> TRUE]
    [] tok = "function w(uint v) public nonReentrant {" -> [ids |-> <<"w", "uint", "v", "nonReentrant">>, stop |-> TRUE]
    [] tok = "function setOwner(uint v) public {" -> [ids |-> <<"setOwner", "uint", "v">>, stop |-> TRUE]
    [] tok = "function withdraw(uint v) public {" -> [ids |-> <<"withdraw", "uint", "v">>, stop |-> TRUE]
    [] tok = "t.call(d);" -> [ids |-> <<"t", "call", "d">>, stop |-> FALSE]
    [] tok = "t.call{value: v}(d);" -> [ids |-> <<"t", "call">>, stop |-> TRUE]
    [] tok = "t.call.value(v)(d);" -> [ids |-> <<"t", "call", "value", "v", "d">>, stop |-> FALSE]
    [] tok = "t.send(v);" -> [ids |-> <<"t", "send", "v">>, stop |-> FALSE]
    [] tok = "t.transfer(v);" -> [ids |-> <<"t", "transfer", "v">>, stop |-> FALSE]
    [] tok = "t.delegatecall(d);" -> [ids |-> <<"t", "delegatecall", "d">>, stop |-> FALSE]
    [] tok = "(bool ok, ) = t.call(d);" -> [ids |-> <<"bool", "ok", "t", "call", "d">>, stop |-> FALSE]
    [] tok = "x = 1;" -> [ids |-> <<"x">>, stop |-> FALSE]
    [] tok = "x -= v;" -> [ids |-> <<"x", "v">>, stop |-> FALSE]
    [] tok = "y += v;" -> [ids |-> <<"y", "v">>, stop |-> FALSE]
    [] tok = "c = a + b;" -> [ids |-> <<"c", "a", "b">>, stop |-> FALSE]
    [] tok = "c = a - b;" -> [ids |-> <<"c", "a", "b">>, stop |-> FALSE]
    [] tok = "c = a * b;" -> [ids |-> <<"c", "a", "b">>, stop |-> FALSE]
    [] tok = "require(ok);" -> [ids |-> <<"require", "ok">>, stop |-> FALSE]
    [] tok = "require(x >= v);" -> [ids |-> <<"require", "x", "v">>, stop |-> FALSE]
    [] tok = "require(msg.sender == o);" -> [ids |-> <<"require", "msg", "sender", "o">>, stop |-> FALSE]
    [] tok = "o = msg.sender;" -> [ids |-> <<"o", "msg", "sender">>, stop |-> FALSE]
    [] tok = "pragma solidity ^0.8.0;" -> [ids |-> <<"pragma", "solidity">>, stop |-> FALSE]
    [] tok = "pragma solidity 0.8.0;" -> [ids |-> <<"pragma", "solidity">>, stop |-> FALSE]
    [] tok = "pragma solidity ^0.7.0;" -> [ids |-> <<"pragma", "solidity">>, stop |-> FALSE]
    [] tok = "pragma solidity 0.7.6;" -> [ids |-> <<"pragma", "solidity">>, stop |-> FALSE]
    [] tok = "o = tx.origin;" -> [ids |-> <<"o", "tx", "origin">>, stop |-> FALSE]
    [] tok = "a = 0x742d35Cc6634C0532925a3b844Bc9e7595f0bEb0;" -> [ids |-> <<"a">>, stop |-> FALSE]
    [] tok = "k = 0x9f86d081884c7d659a2feaa0c55ad015a3bf4f1b2b0b822cd15d6c15b0f00a08;" -> [ids |-> <<"k">>, stop |-> FALSE]
    [] tok = "r = block.timestamp;" -> [ids |-> <<"r", "block", "timestamp">>, stop |-> FALSE]
    [] tok = "r = block.number;" -> [ids |-> <<"r", "block", "number">>, stop |-> FALSE]
    [] tok = "r = blockhash(n);" -> [ids |-> <<"r", "blockhash", "n">>, stop |-> FALSE]
    [] tok = "r = block.difficulty;" -> [ids |-> <<"r", "block", "difficulty">>, stop |-> FALSE]
    [] tok = "r = block.timestamp + block.timestamp;" -> [ids |-> <<"r", "block", "timestamp", "block", "timestamp">>, stop |-> FALSE]
    [] tok = "function p(uint v) public pure returns (uint) {" -> [ids |-> <<"p", "uint", "v", "uint">>, stop |-> TRUE]
    [] tok = "function q(uint v) private payable {" -> [ids |-> <<"q", "uint", "v">>, stop |-> TRUE]
    [] tok = "(bool ok, ) = r;" -> [ids |-> <<"bool", "ok", "r">>, stop |-> FALSE]
    [] tok = "zzzzzzzzzzzzzzzzzzzzzzzzzzzzzzzzzzzzzzzzzzzzzzzzzzzzzzzzzzzzzzzzzzzzzzzzzzzzzzzzzzzzzzzzzzzzzzzzzzzzzzzzzzzzzzzzzzzzzzzzzzzzzzzzzzzzzzzzzzzzzzzzzzzzzzzzzzzzzzzzzzzzzzzzzzzzzzzzzzzzzzzzzzzzz;" -> [ids |-> <<"zzzzzzzzzzzzzzzzzzzzzzzzzzzzzzzzzzzzzzzzzzzzzzzzzzzzzzzzzzzzzzzzzzzzzzzzzzzzzzzzzzzzzzzzzzzzzzzzzzzzzzzzzzzzzzzzzzzzzzzzzzzzzzzzzzzzzzzzzzzzzzzzzzzzzzzzzzzzzzzzzzzzzzzzzzzzzzzzzzzzzzzzzzzzz">>, stop |-> FALSE]
    [] tok = "emit E(v);" -> [ids |-> <<"emit", "E", "v">>, stop |-> FALSE]
    [] OTHER -> [ids |-> <<>>, stop |-> FALSE]

(***************************************************************************)
(* Text: offsets, searches                                                 *)
(***************************************************************************)
Min(S) == CHOOSE m \in S : \A n \in S : m <= n

RECURSIVE Flatten(_)
Flatten(ss) == IF ss = <<>> THEN <<>> ELSE Head(ss) \o Flatten(Tail(ss))

Shift(offsets, d) == [n \in 1..Len(offsets) |-> offsets[n] + d]

\* offset of the k-th fragment of a line in the line's text
RECURSIVE TokStart(_, _)
TokStart(line, k) ==
  IF k = 1 THEN 0 ELSE TokStart(line, k - 1) + Len(line[k - 1]) + 1

LineLen(line) ==
  IF line = <<>> THEN 0 ELSE TokStart(line, Len(line)) + Len(line[Len(line)])

\* offset of the l-th line of a text in "\n".join(text)
RECURSIVE LineStart(_, _)
LineStart(text, l) ==
  IF l = 1 THEN 0 ELSE LineStart(text, l - 1) + LineLen(text[l - 1]) + 1

\* [m.start() for m in re.finditer(pattern, tok)]: a pattern is named by its
\* table, a table of two arguments together with the first of them; "in"
\* names the search for a plain text
finditer(pattern, tok) ==
  CASE pattern[1] = "external_call_re" -> external_call_re(tok)
    [] pattern[1] = "state_change_re" -> state_change_re(tok)
    [] pattern[1] = "msg_sender_re" -> msg_sender_re(tok)
    [] pattern[1] = "has_params_re" -> has_params_re(tok)
    [] pattern[1] = "validation_re" -> validation_re(tok)
    [] pattern[1] = "state_change_or_call_re" -> state_change_or_call_re(tok)
    [] pattern[1] = "address_pattern" -> address_pattern(tok)
    [] pattern[1] = "event_re" -> event_re(tok)
    [] pattern[1] = "tx_origin_re" -> tx_origin_re(tok)
    [] pattern[1] = "delegatecall_re" -> delegatecall_re(tok)
    [] pattern[1] = "user_input_re" -> user_input_re(tok)
    [] pattern[1] = "unchecked_call_pattern" -> unchecked_call_pattern(tok)
    [] pattern[1] = "call_patterns" -> call_patterns(pattern[2], tok)
    [] pattern[1] = "deprecated_patterns" -> deprecated_patterns(pattern[2], tok)
    [] pattern[1] = "arithmetic_patterns" -> arithmetic_patterns(pattern[2], tok)
    [] pattern[1] = "insecure_patterns" -> insecure_patterns(pattern[2], tok)
    [] pattern[1] = "write_pattern" -> write_pattern(pattern[2], tok)
    [] pattern[1] = "in" -> StrFind(pattern[2], tok)

\* <<m.start(), least m.end()>> of the matches of a pattern in a fragment
finditer_span(pattern, tok) ==
  CASE pattern[1] = "require_re" -> require_re_span(tok)
    [] pattern[1] = "return_check_re" -> return_check_re_span(tok)

\* re.search(pattern, tok).group(1), "" without a match
group1(pattern, tok) ==
  CASE pattern[1] = "contract_pattern" -> contract_pattern(tok)
    [] pattern[1] = "function_pattern" -> function_pattern(tok)

\* [m.start() for m in re.finditer(pattern, line)]
LineMatches(pattern, line) ==
  Flatten([k \in 1..Len(line) |->
             Shift(finditer(pattern, line[k]), TokStart(line, k))])

\* [m.start() for m in re.finditer(pattern, "\n".join(text))]
TextMatches(pattern, text) ==
  Flatten([l \in 1..Len(text) |->
             Shift(LineMatches(pattern, text[l]), LineStart(text, l))])

\* bool(re.search(pattern, "\n".join(text)))
TextSearch(pattern, text) == TextMatches(pattern, text) # <<>>

\* substring in line
InLine(sub, line) == \E k \in 1..Len(line) : StrFind(sub, line[k]) # <<>>

\* seeded fault: line breaks counted one too many
NewlinesBefore_one_more(text, pos) ==
  Cardinality({l \in 2..Len(text) : LineStart(text, l) <= pos}) + 1

\* text[:pos].count("\n")
NewlinesBefore(text, pos) ==
  Cardinality({l \in 2..Len(text) : LineStart(text, l) <= pos})

\* group(1) of re.search(pattern, line), "" when the line has no match
LineGroup(pattern, line) ==
  LET ks == {k \in 1..Len(line) : group1(pattern, line[k]) # ""}
  IN  IF ks = {} THEN "" ELSE group1(pattern, line[Min(ks)])

(***************************************************************************)
(* parser.py: SolidityParser                                               *)
(***************************************************************************)
\* the characters of a line that the brace loops act on
LineChars(line) == Flatten([k \in 1..Len(line) |-> TokBraces(line[k])])

\* _extract_contracts: `for char in contract_line`, from character k on
RECURSIVE ContractScanLine(_, _, _, _)
ContractScanLine(chars, k, brace_count, in_contract) ==
  IF k > Len(chars)
  THEN [closed |-> FALSE, brace_count |-> brace_count, in_block |-> in_contract]
  ELSE IF chars[k] = "{"
  THEN ContractScanLine(chars, k + 1, brace_count + 1, TRUE)
  ELSE IF in_contract /\ brace_count - 1 = 0
  THEN [closed |-> TRUE, brace_count |-> 0, in_block |-> TRUE]
  ELSE ContractScanLine(chars, k + 1, brace_count - 1, in_contract)

\* _extract_contracts: `for j, contract_line in enumerate(self.lines[i - 1:],
\* start=i)`: the line j on which the contract is recorded, 0 when the loop
\* ends (end of input, or the break of line 127) without recording one
RECURSIVE ContractEnd(_, _, _, _)
ContractEnd(ls, j, brace_count, in_contract) ==
  IF j > Len(ls) THEN 0
  ELSE LET r == ContractScanLine(LineChars(ls[j]), 1, brace_count, in_contract)
       IN  IF r.closed THEN j
           ELSE IF r.in_block /\ r.brace_count = 0 THEN 0
           ELSE ContractEnd(ls, j + 1, r.brace_count, r.in_block)

ContractInfo(name, line_start, line_end) ==
  [name |-> name, functions |-> <<>>, state_variables |-> <<>>,
   modifiers |-> <<>>, line_start |-> line_start, line_end |-> line_end]

\* the contracts _extract_contracts appends to self.contracts, in order
_extract_contracts(ls) ==
  LET at(i) == LET name == LineGroup(<<"contract_pattern">>, ls[i])
               IN  ContractInfo(name, i,
                                IF name = "" THEN 0 ELSE ContractEnd(ls, i, 0, FALSE))
  IN  SelectSeq([i \in 1..Len(ls) |-> at(i)],
                LAMBDA c : c.name # "" /\ c.line_end # 0)

\* _parse_modifiers_from_signature: the identifiers of the fragments from the
\* k-th on, up to the first "{"
RECURSIVE ModifiersFrom(_, _)
ModifiersFrom(line, k) ==
  IF k > Len(line) THEN <<>>
  ELSE LET m == ModifiersBeforeBrace(line[k])
       IN  m.ids \o (IF m.stop THEN <<>> ELSE ModifiersFrom(line, k + 1))

_parse_modifiers_from_signature(line) ==
  LET parens == LineMatches(<<"in", ")">>, line)
  IN  IF parens = <<>> \/ parens[1] <= 0 THEN <<>>
      ELSE LET k == Min({n \in 1..Len(line) : StrFind(")", line[n]) # <<>>})
               m == ModifiersAfterParen(line[k])
           IN  m.ids \o (IF m.stop THEN <<>> ELSE ModifiersFrom(line, k + 1))

_extract_function_properties(line) ==
  [visibility |-> IF InLine("public", line) THEN "public"
                  ELSE IF InLine("private", line) THEN "private"
                  ELSE IF InLine("internal", line) THEN "internal"
                  ELSE IF InLine("external", line) THEN "external"
                  ELSE "public",
   is_payable |-> InLine("payable", line),
   is_view |-> InLine("view", line),
   is_pure |-> InLine("pure", line)]

\* _extract_function_body: `for char in func_line`, from character k on
RECURSIVE FunctionScanLine(_, _, _, _)
FunctionScanLine(chars, k, brace_count, in_function) ==
  IF k > Len(chars)
  THEN [closed |-> FALSE, brace_count |-> brace_count, in_block |-> in_function]
  ELSE IF chars[k] = "{"
  THEN FunctionScanLine(chars, k + 1, brace_count + 1, TRUE)
  ELSE IF in_function /\ brace_count - 1 = 0
  THEN [closed |-> TRUE, brace_count |-> 0, in_block |-> TRUE]
  ELSE FunctionScanLine(chars, k + 1, brace_count - 1, in_function)

\* _extract_function_body: `for j, func_line in enumerate(contract_lines[
\* start_idx:], start=start_idx)`: j + 1 for the line on which the function
\* returns its body, 0 when the loop ends without one
RECURSIVE FunctionEnd(_, _, _, _)
FunctionEnd(contract_lines, j, brace_count, in_function) ==
  IF j > Len(contract_lines) THEN 0
  ELSE LET r == FunctionScanLine(LineChars(contract_lines[j]), 1, brace_count,
                                 in_function)
       IN  IF r.closed THEN j
           ELSE IF r.in_block /\ r.brace_count = 0 THEN 0
           ELSE FunctionEnd(contract_lines, j + 1, r.brace_count, r.in_block)

\* seeded fault: the end line counted from 1, one line too far
FuncEndLine_one_based(contract_line_start, j) == contract_line_start + j + 1

\* func_end_line = contract_line_start + j, j the 0-based index of the line
FuncEndLine(contract_line_start, j) == contract_line_start + j

\* (func_body, func_end_line), or found = FALSE for (None, None); start_idx
\* is 0-based as in the code
_extract_function_body(contract_lines, start_idx, contract_line_start) ==
  LET e == FunctionEnd(contract_lines, start_idx + 1, 0, FALSE)
  IN  IF e = 0 THEN [found |-> FALSE, body |-> <<>>, end_line |-> 0]
      ELSE [found |-> TRUE,
            body |-> SubSeq(contract_lines, start_idx + 1, e),
            end_line |-> FuncEndLine(contract_line_start, e - 1)]

\* the functions _extract_functions appends to contract.functions, in order
_extract_functions(contract, ls) ==
  LET contract_lines == SubSeq(ls, contract.line_start, contract.line_end)
      at(n) ==
        LET i == contract.line_start + n - 1
            line == contract_lines[n]
            func_name == LineGroup(<<"function_pattern">>, line)
            p == _extract_function_properties(line)
            b == _extract_function_body(contract_lines, i - contract.line_start,
                                        contract.line_start)
        IN  [name |-> func_name,
             visibility |-> p.visibility,
             is_payable |-> p.is_payable,
             is_view |-> p.is_view,
             is_pure |-> p.is_pure,
             modifiers |-> _parse_modifiers_from_signature(line),
             line_start |-> i,
             line_end |-> b.end_line,
             body |-> b.body,
             found |-> func_name # "" /\ func_name # contract.name
                       /\ func_name # "constructor" /\ b.found]
      node(f) == [name |-> f.name, visibility |-> f.visibility,
                  is_payable |-> f.is_payable, is_view |-> f.is_view,
                  is_pure |-> f.is_pure, modifiers |-> f.modifiers,
                  line_start |-> f.line_start, line_end |-> f.line_end,
                  body |-> f.body]
      kept == SelectSeq([n \in 1..Len(contract_lines) |-> at(n)],
                        LAMBDA f : f.found)
  IN  [n \in 1..Len(kept) |-> node(kept[n])]

\* the variables _extract_state_variables appends to contract.state_variables
_extract_state_variables(contract, ls) ==
  LET contract_lines == SubSeq(ls, contract.line_start, contract.line_end)
      at(n) ==
        LET line == contract_lines[n]
            ks == {k \in 1..Len(line) : var_pattern(line[k]).name # ""}
            m == IF ks = {} THEN [name |-> "", type |-> ""]
                 ELSE var_pattern(line[Min(ks)])
        IN  [name |-> IF InLine("function", line) THEN "" ELSE m.name,
             type |-> m.type,
             visibility |-> IF InLine("public", line) THEN "public"
                            ELSE IF InLine("private", line) THEN "private"
                            ELSE "internal",
             line_number |-> contract.line_start + n - 1]
  IN  SelectSeq([n \in 1..Len(contract_lines) |-> at(n)],
                LAMBDA v : v.name # "")

\* the names _extract_modifiers appends to contract.modifiers
_extract_modifiers(contract, ls) ==
  LET contract_lines == SubSeq(ls, contract.line_start, contract.line_end)
      toks == Flatten(contract_lines)
  IN  SelectSeq([k \in 1..Len(toks) |-> modifier_pattern(toks[k])],
                LAMBDA name : name # "")

\* the body of parse()'s loop for one contract: the three extractions append
\* to the contract's own lists
ParseContract(contract, ls) ==
  [contract EXCEPT
     !.functions = @ \o _extract_functions(contract, ls),
     !.state_variables = @ \o _extract_state_variables(contract, ls),
     !.modifiers = @ \o _extract_modifiers(contract, ls)]

\* seeded fault: the handler re-raises instead of returning []
parse_except_reraise == [raised |-> TRUE, value |-> <<>>]

\* parse(): `except Exception` logs and returns []
parse_except == [raised |-> FALSE, value |-> <<>>]

(***************************************************************************)
(* detectors/base.py                                                       *)
(***************************************************************************)
\* Finding: file_path, code_snippet, recommendation and reference are texts
\* no decision of the program reads; they are left out.  The description is
\* the sequence of the pieces of its f-string
FindingAbout(severity, title, line_number, function_name, description) ==
  [severity |-> severity, title |-> title, line_number |-> line_number,
   function_name |-> function_name, description |-> description]

\* a Finding whose description names nothing but the function: left out
Finding(severity, title, line_number, function_name) ==
  FindingAbout(severity, title, line_number, function_name, <<>>)

\* the functions of all contracts, in the order of
\* `for contract in contracts: for func in contract.functions`
FuncsOf(cs) ==
  Flatten([c \in 1..Len(cs) |->
             [f \in 1..Len(cs[c].functions) |->
                [contract |-> cs[c], func |-> cs[c].functions[f]]]])

\* bool(re.search(r'require\s*\(.*msg\.sender', body)): "." matches no line
\* break, so `require(` and a later msg.sender stand on one line
require_msg_sender(body) ==
  \E l \in 1..Len(body) :
    LET reqs == Flatten([k \in 1..Len(body[l]) |->
                   [n \in 1..Len(require_re_span(body[l][k])) |->
                      require_re_span(body[l][k])[n][2] + TokStart(body[l], k)]])
        snds == LineMatches(<<"msg_sender_re">>, body[l])
    IN  \E a \in 1..Len(reqs), b \in 1..Len(snds) : reqs[a] <= snds[b]

(***************************************************************************)
(* detectors/reentrancy.py: ReentrancyDetector                             *)
(***************************************************************************)
\* seeded fault: the guard asked for whether or not the contract declares it
_check_missing_guard_any_contract(func, contract) ==
  IF TextSearch(<<"external_call_re">>, func.body)
     /\ ~(\E n \in 1..Len(func.modifiers) : func.modifiers[n] = "nonReentrant")
  THEN <<Finding("HIGH", "Missing Reentrancy Guard", func.line_start, func.name)>>
  ELSE <<>>

_check_missing_guard(func, contract) ==
  LET has_external_call == TextSearch(<<"external_call_re">>, func.body)
  IN  IF has_external_call
         /\ ~(\E n \in 1..Len(func.modifiers) : func.modifiers[n] = "nonReentrant")
         /\ (\E n \in 1..Len(contract.modifiers) :
               contract.modifiers[n] = "nonReentrant")
      THEN <<Finding("HIGH", "Missing Reentrancy Guard", func.line_start, func.name)>>
      ELSE <<>>

\* call_positions, in the order of `for pattern in call_patterns: for match`
CallPositions(func_body) ==
  Flatten([i \in 1..5 |-> TextMatches(<<"call_patterns", i>>, func_body)])

\* write_positions, in the order of `for var_name in state_var_names: for match`
WritePositions(func_body, state_var_names) ==
  Flatten([v \in 1..Len(state_var_names) |->
             LET ps == TextMatches(<<"write_pattern", state_var_names[v]>>,
                                   func_body)
             IN  [n \in 1..Len(ps) |-> [var_name |-> state_var_names[v], pos |-> ps[n]]]])

\* the inner `for var_name, write_pos in write_positions` loop for one call:
\* one finding at the first write behind the call, then break
CeiForCall(func, call_pos, write_positions) ==
  IF \E w \in 1..Len(write_positions) : call_pos < write_positions[w].pos
  THEN <<Finding("CRITICAL",
                 "Reentrancy Vulnerability: External Call Before State Update",
                 func.line_start + NewlinesBefore(func.body, call_pos),
                 func.name)>>
  ELSE <<>>

_check_cei_violation(func, contract) ==
  LET state_var_names == [v \in 1..Len(contract.state_variables) |->
                            contract.state_variables[v].name]
      call_positions == CallPositions(func.body)
      write_positions == WritePositions(func.body, state_var_names)
  IN  IF state_var_names = <<>> THEN <<>>
      ELSE IF call_positions = <<>> \/ write_positions = <<>> THEN <<>>
      ELSE Flatten([c \in 1..Len(call_positions) |->
                      CeiForCall(func, call_positions[c], write_positions)])

DeprecatedTitle(i) ==
  CASE i = 1 -> "Deprecated Call Pattern: call.value()"
    [] i = 2 -> "Deprecated Call Pattern: send()"
    [] i = 3 -> "Deprecated Call Pattern: transfer()"

_check_deprecated_calls(func) ==
  Flatten([i \in 1..3 |->
     LET ps == TextMatches(<<"deprecated_patterns", i>>, func.body)
     IN  [n \in 1..Len(ps) |->
            Finding(IF i = 1 THEN "HIGH" ELSE "MEDIUM", DeprecatedTitle(i),
                    func.line_start + NewlinesBefore(func.body, ps[n]),
                    func.name)]])

_check_fallback_vectors(func) ==
  IF func.visibility \in {"public", "external"} /\ func.is_payable
     /\ TextSearch(<<"state_change_re">>, func.body)
     /\ ~require_msg_sender(func.body)
  THEN <<Finding("MEDIUM", "Potential Reentrancy via Fallback", func.line_start,
                 func.name)>>
  ELSE <<>>

ReentrancyDetect(cs, text) ==
  LET fs == FuncsOf(cs)
  IN  Flatten([n \in 1..Len(fs) |->
        IF fs[n].func.is_view \/ fs[n].func.is_pure THEN <<>>
        ELSE _check_missing_guard(fs[n].func, fs[n].contract)
             \o _check_cei_violation(fs[n].func, fs[n].contract)
             \o _check_deprecated_calls(fs[n].func)
             \o _check_fallback_vectors(fs[n].func)])

(***************************************************************************)
(* detectors/validation.py: ValidationDetector                             *)
(***************************************************************************)
\* re.sub(r"//.*?$", "", body, flags=re.MULTILINE): a line loses what
\* follows its first "//"
StripLineComments(body) ==
  [l \in 1..Len(body) |->
     LET ks == {k \in 1..Len(body[l]) : StrFind("//", body[l][k]) # <<>>}
     IN  IF ks = {} THEN body[l] ELSE SubSeq(body[l], 1, Min(ks) - 1)]

\* re.sub(r"/\*.*?\*/", "", text, flags=re.DOTALL) on the fragments of the
\* text: each "/*" goes with everything up to the next "*/"
RECURSIVE StripBlockComments(_)
StripBlockComments(toks) ==
  LET opens == {k \in 1..Len(toks) : StrFind("/*", toks[k]) # <<>>}
  IN  IF opens = {} THEN toks
      ELSE LET a == Min(opens)
               closes == {k \in (a + 1)..Len(toks) : StrFind("*/", toks[k]) # <<>>}
           IN  IF closes = {} THEN toks
               ELSE SubSeq(toks, 1, a - 1)
                    \o StripBlockComments(SubSeq(toks, Min(closes) + 1, Len(toks)))

body_without_comments(body) == StripBlockComments(Flatten(StripLineComments(body)))

_check_missing_validation(func) ==
  LET has_params == TextSearch(<<"has_params_re">>, func.body)
      stripped == body_without_comments(func.body)
      has_validation == \E k \in 1..Len(stripped) : validation_re(stripped[k]) # <<>>
      has_state_change == TextSearch(<<"state_change_or_call_re">>, func.body)
  IN  IF func.is_view \/ func.is_pure THEN <<>>
      ELSE IF has_params /\ has_state_change /\ ~has_validation
      THEN <<Finding("MEDIUM", "Missing Input Validation", func.line_start, func.name)>>
      ELSE <<>>

\* version_match and the test of lines 93-102: TRUE when the check returns
\* early because the pragma names a version >= 0.8
SafeArithmeticVersion(text) ==
  LET toks == Flatten(text)
      ks == {k \in 1..Len(toks) : version_match(toks[k]) # <<>>}
  IN  IF ks = {} THEN FALSE
      ELSE LET version == version_match(toks[Min(ks)])
           IN  IF Len(version) < 2 THEN FALSE
               ELSE version[1] > 0 \/ (version[1] = 0 /\ version[2] >= 8)

ContextWindow == 50

\* sub in context_before[-50:], context_before = func.body[:start]
InContextBefore(sub, body, start) ==
  LET ps == TextMatches(<<"in", sub>>, body)
      from == IF start - ContextWindow < 0 THEN 0 ELSE start - ContextWindow
  IN  \E n \in 1..Len(ps) : from <= ps[n] /\ ps[n] + Len(sub) <= start

ArithmeticTitle(i) ==
  CASE i = 1 -> "Potential Integer Overflow/Underflow: Addition"
    [] i = 2 -> "Potential Integer Overflow/Underflow: Subtraction"
    [] i = 3 -> "Potential Integer Overflow/Underflow: Multiplication"

_check_unsafe_arithmetic(func, text) ==
  IF SafeArithmeticVersion(text) THEN <<>>
  ELSE Flatten([i \in 1..3 |->
         LET ps == TextMatches(<<"arithmetic_patterns", i>>, func.body)
             open == {n \in 1..Len(ps) :
                        ~InContextBefore("require", func.body, ps[n])
                        /\ ~InContextBefore("assert", func.body, ps[n])}
         IN  IF open = {} THEN <<>>
             ELSE <<Finding("MEDIUM", ArithmeticTitle(i),
                            func.line_start + NewlinesBefore(func.body, ps[Min(open)]),
                            func.name)>>])

\* seeded fault: no match counts as standing in a comment
InCommentBefore_never(line, start) == FALSE

\* "//" in line[:start] or "/*" in line[:start]
InCommentBefore(line, start) ==
  \E sub \in {"//", "/*"} :
    LET ps == LineMatches(<<"in", sub>>, line)
    IN  \E n \in 1..Len(ps) : ps[n] + Len(sub) <= start

\* the matches of address_pattern in a line: start and group(0)
AddressMatches(line) ==
  Flatten([k \in 1..Len(line) |->
     [n \in 1..Len(address_pattern(line[k])) |->
        [start |-> address_pattern(line[k])[n] + TokStart(line, k),
         address |-> address_group(line[k])[n]]]])

_check_hardcoded_addresses(text) ==
  Flatten([i \in 1..Len(text) |->
     LET kept == SelectSeq(AddressMatches(text[i]),
                           LAMBDA m : ~InCommentBefore(text[i], m.start))
     IN  [n \in 1..Len(kept) |->
            FindingAbout("LOW", "Hardcoded Address", i, "",
              <<"Hardcoded address found: ", kept[n].address,
                ". Hardcoded addresses reduce flexibility and make contracts harder to maintain. Consider using configuration variables or constructor parameters.">>)]])

ValidationDetect(cs, text) ==
  LET fs == FuncsOf(cs)
  IN  Flatten([n \in 1..Len(fs) |->
        _check_missing_validation(fs[n].func)
        \o _check_unsafe_arithmetic(fs[n].func, text)])
      \o _check_hardcoded_addresses(text)

(***************************************************************************)
(* detectors/bad_patterns.py: BadPatternsDetector                          *)
(***************************************************************************)
RandomnessTitle(i) ==
  CASE i = 1 -> "Insecure Randomness: block.timestamp"
    [] i = 2 -> "Insecure Randomness: block.number"
    [] i = 3 -> "Insecure Randomness: blockhash()"
    [] i = 4 -> "Insecure Randomness: block.difficulty"

\* seeded fault: one finding for every occurrence of a source
_check_insecure_randomness_per_match(func) ==
  Flatten([i \in 1..4 |->
     [n \in 1..Len(TextMatches(<<"insecure_patterns", i>>, func.body)) |->
        Finding("HIGH", RandomnessTitle(i), func.line_start, func.name)]])

_check_insecure_randomness(func) ==
  Flatten([i \in 1..4 |->
     IF TextSearch(<<"insecure_patterns", i>>, func.body)
     THEN <<Finding("HIGH", RandomnessTitle(i), func.line_start, func.name)>>
     ELSE <<>>])

_check_unprotected_admin(func) ==
  LET has_access_control ==
        \E n \in 1..Len(func.modifiers) :
          func.modifiers[n] \in {"onlyOwner", "onlyAdmin", "onlyRole"}
  IN  IF is_admin_function(func.name) /\ ~has_access_control
         /\ ~require_msg_sender(func.body)
      THEN <<Finding("CRITICAL", "Unprotected Admin Function", func.line_start,
                     func.name)>>
      ELSE <<>>

_check_missing_events(func) ==
  IF TextSearch(<<"state_change_re">>, func.body) /\ is_important(func.name)
     /\ ~TextSearch(<<"event_re">>, func.body)
  THEN <<Finding("LOW", "Missing Event Emission", func.line_start, func.name)>>
  ELSE <<>>

_check_tx_origin(text) ==
  Flatten([i \in 1..Len(text) |->
     IF LineMatches(<<"tx_origin_re">>, text[i]) # <<>>
        /\ ~InCommentBefore(text[i],
                            LineMatches(<<"in", "tx.origin">>, text[i])[1])
     THEN <<Finding("HIGH", "Use of tx.origin", i, "")>>
     ELSE <<>>])

BadPatternsDetect(cs, text) ==
  LET fs == FuncsOf(cs)
  IN  Flatten([n \in 1..Len(fs) |->
        _check_insecure_randomness(fs[n].func)
        \o _check_unprotected_admin(fs[n].func)
        \o _check_missing_events(fs[n].func)])
      \o _check_tx_origin(text)

(***************************************************************************)
(* detectors/insecure_calls.py: InsecureCallsDetector                      *)
(***************************************************************************)
_check_delegatecall(func) ==
  IF TextSearch(<<"delegatecall_re">>, func.body)
  THEN <<Finding(IF TextSearch(<<"user_input_re">>, func.body) THEN "CRITICAL" ELSE "HIGH",
                 "Unsafe delegatecall Usage", func.line_start, func.name)>>
  ELSE <<>>

ReturnCheckWindow == 200
RequireWindow == 500

\* seeded fault: the search runs to the end of the body
SearchWindow_to_end(pattern, body, call_start, window) ==
  \E l \in 1..Len(body) : \E k \in 1..Len(body[l]) :
    \E n \in 1..Len(finditer_span(pattern, body[l][k])) :
      call_start <= finditer_span(pattern, body[l][k])[n][1]
                      + LineStart(body, l) + TokStart(body[l], k)

\* bool(re.search(pattern, func.body[call_start:call_start + window])):
\* a match that begins and can end inside the window
SearchWindow(pattern, body, call_start, window) ==
  \E l \in 1..Len(body) : \E k \in 1..Len(body[l]) :
    \E n \in 1..Len(finditer_span(pattern, body[l][k])) :
      LET at == LineStart(body, l) + TokStart(body[l], k)
      IN  /\ call_start <= finditer_span(pattern, body[l][k])[n][1] + at
          /\ finditer_span(pattern, body[l][k])[n][2] + at <= call_start + window

_check_unchecked_returns(func) ==
  LET ps == TextMatches(<<"unchecked_call_pattern">>, func.body)
      open == SelectSeq(ps, LAMBDA s :
                ~SearchWindow(<<"return_check_re">>, func.body, s, ReturnCheckWindow)
                /\ ~SearchWindow(<<"require_re">>, func.body, s, RequireWindow))
  IN  [n \in 1..Len(open) |->
         Finding("MEDIUM", "Unchecked Return Value from External Call",
                 func.line_start + NewlinesBefore(func.body, open[n]), func.name)]

InsecureCallsDetect(cs, text) ==
  LET fs == FuncsOf(cs)
  IN  Flatten([n \in 1..Len(fs) |->
        _check_delegatecall(fs[n].func) \o _check_unchecked_returns(fs[n].func)])

(***************************************************************************)
(* cli.py, reporter.py                                                     *)
(***************************************************************************)
\* scan_file's `detectors` list: detector d's detect(contracts, source_code)
Detect(d, cs, text) ==
  CASE d = 1 -> ReentrancyDetect(cs, text)
    [] d = 2 -> ValidationDetect(cs, text)
    [] d = 3 -> BadPatternsDetect(cs, text)
    [] d = 4 -> InsecureCallsDetect(cs, text)

NumDetectors == 4

\* seeded fault: a detector's findings put in front of the earlier ones
Extend_in_front(all, fs) == fs \o all

\* all_findings.extend(findings)
Extend(all, fs) == all \o fs

\* seeded fault: with critical_only only CRITICAL findings count
get_exit_code_critical_alone(fs, critical_only) ==
  IF critical_only
  THEN IF \E n \in 1..Len(fs) : fs[n].severity \in {"CRITICAL"} THEN 1 ELSE 0
  ELSE IF \E n \in 1..Len(fs) : fs[n].severity \in {"CRITICAL", "HIGH"} THEN 1 ELSE 0

get_exit_code(fs, critical_only) ==
  IF critical_only
  THEN IF \E n \in 1..Len(fs) : fs[n].severity \in {"CRITICAL", "HIGH"} THEN 1 ELSE 0
  ELSE IF \E n \in 1..Len(fs) : fs[n].severity \in {"CRITICAL", "HIGH"} THEN 1 ELSE 0

severity_weights(severity) ==
  CASE severity = "CRITICAL" -> 20
    [] severity = "HIGH" -> 15
    [] severity = "MEDIUM" -> 10
    [] severity = "LOW" -> 5
    [] severity = "INFO" -> 2
    [] OTHER -> 0

\* sum(severity_weights.get(f.severity, 0) for f in findings)
RECURSIVE total_penalty(_)
total_penalty(fs) ==
  IF fs = <<>> THEN 0
  ELSE severity_weights(Head(fs).severity) + total_penalty(Tail(fs))

\* seeded fault: the score without max(0, ...)
calculate_score_unclamped(fs) == 100 - total_penalty(fs)

\* max(0, 100 - total_penalty), 100 for an empty list
calculate_score(fs) ==
  IF fs = <<>> THEN 100
  ELSE IF 100 - total_penalty(fs) > 0 THEN 100 - total_penalty(fs) ELSE 0

(***************************************************************************)
(* Inputs                                                                  *)
(***************************************************************************)
MaxLines == 3
MaxStmts == 2
MaxFindings == 6

Severities == {"CRITICAL", "HIGH", "MEDIUM", "LOW", "INFO"}

\* all texts of at most n lines drawn from the line set L
Texts(L, n) == UNION {[1..k -> L] : k \in 0..n}

\* lines for the structural scans: braces before and after a declaration,
\* declarations that open and close on one line, closers that share a line
StructLines ==
  { <<>>,
    <<"{">>,
    <<"}">>,
    <<"}", "}">>,
    <<"contract A {">>,
    <<"contract A {", "{">>,
    <<"contract B {", "}">>,
    <<"}", "contract B {">>,
    <<"}", "contract B {", "}">>,
    <<"uint x;">>,
    <<"function f() public {">>,
    <<"function f() public {", "x = 1;", "}">>,
    <<"function f() public {", "x = 1;", "}", "}">>,
    <<"contract A {", "function f() public {">> }

StructSources == Texts(StructLines, MaxLines)

\* one contract with two state variables and one function
ScanPragmas ==
  {"", "pragma solidity ^0.8.0;", "pragma solidity 0.8.0;", "pragma solidity 0.7.6;"}

ScanHeaders ==
  {"function f() public {",
   "function g(uint v) external payable {",
   "function h(uint v) public view returns (uint) {"}

ScanStmts ==
  {"t.call(d);", "t.call{value: v}(d);", "t.send(v);", "t.delegatecall(d);",
   "x = 1;", "y += v;", "c = a + b;", "require(ok);", "o = tx.origin;",
   "a = 0x742d35Cc6634C0532925a3b844Bc9e7595f0bEb0;"}

ScanLayouts == {"multi", "single", "open"}

MkSource(pragma, layout, header, stmts) ==
  (IF pragma = "" THEN <<>> ELSE <<<<pragma>>>>)
  \o << <<"contract A {">>, <<"uint x;">>, <<"uint public y;">> >>
  \o (CASE layout = "multi" ->
             <<<<header>>>> \o [n \in 1..Len(stmts) |-> <<stmts[n]>>]
             \o << <<"}">>, <<"}">> >>
        [] layout = "single" ->
             << <<header>> \o stmts \o <<"}">>, <<"}">> >>
        [] layout = "open" ->
             <<<<header>>>> \o [n \in 1..Len(stmts) |-> <<stmts[n]>>]
             \o << <<"}">> >>)

ScanSources ==
  {MkSource(pragma, layout, header, stmts) :
     pragma \in ScanPragmas, layout \in ScanLayouts, header \in ScanHeaders,
     stmts \in Texts(ScanStmts, MaxStmts)}


\* a function on lines of its own ("multi") or on one line ("single")
FunctionLines(layout, header, stmts) ==
  IF layout = "single" THEN << <<header>> \o stmts \o <<"}">> >>
  ELSE <<<<header>>>> \o [n \in 1..Len(stmts) |-> <<stmts[n]>>] \o << <<"}">> >>

\* contract A with the given member lines; without the contract around them
\* when `wrapped` is FALSE, a text in which parse() finds no contract
ContractLines(wrapped, members) ==
  IF wrapped THEN << <<"contract A {">> >> \o members \o << <<"}">> >>
  ELSE members

\* a contract that declares the nonReentrant modifier or not, with one
\* function that carries it, lacks it, or is a view
GuardMembers ==
  { <<>>,
    << <<"uint x;">> >>,
    << <<"modifier nonReentrant() {">>, <<"}">> >>,
    << <<"uint x;">>, <<"modifier nonReentrant() {">>, <<"}">> >> }

GuardHeaders ==
  {"function f() public {",
   "function w(uint v) public nonReentrant {",
   "function h(uint v) public view returns (uint) {"}

GuardStmts ==
  {"t.call(d);", "t.call{value: v}(d);", "t.call.value(v)(d);", "t.send(v);",
   "t.transfer(v);", "t.delegatecall(d);", "x = 1;", "require(ok);"}

GuardSources ==
  {ContractLines(wrapped, members \o FunctionLines(layout, header, stmts)) :
     wrapped \in BOOLEAN, members \in GuardMembers,
     layout \in {"multi", "single"}, header \in GuardHeaders,
     stmts \in Texts(GuardStmts, MaxStmts)}

\* lines with address literals in code, behind and before comment marks, in
\* and outside a contract and a function
AddressLines ==
  { <<"a = 0x742d35Cc6634C0532925a3b844Bc9e7595f0bEb0;">>,
    <<"//", "a = 0x742d35Cc6634C0532925a3b844Bc9e7595f0bEb0;">>,
    <<"/*", "a = 0x742d35Cc6634C0532925a3b844Bc9e7595f0bEb0;", "*/">>,
    <<"/*", "*/", "a = 0x742d35Cc6634C0532925a3b844Bc9e7595f0bEb0;">>,
    <<"a = 0x742d35Cc6634C0532925a3b844Bc9e7595f0bEb0;", "//">>,
    <<"a = 0x742d35Cc6634C0532925a3b844Bc9e7595f0bEb0;",
      "k = 0x9f86d081884c7d659a2feaa0c55ad015a3bf4f1b2b0b822cd15d6c15b0f00a08;">>,
    <<"k = 0x9f86d081884c7d659a2feaa0c55ad015a3bf4f1b2b0b822cd15d6c15b0f00a08;">>,
    <<"/*">>,
    <<"x = 1;">>,
    <<"contract A {", "}">>,
    <<"contract A {", "function f() public {",
      "a = 0x742d35Cc6634C0532925a3b844Bc9e7595f0bEb0;", "}", "}">> }

AddressSources == Texts(AddressLines, MaxLines) \ {<<>>}

\* function headers and statements for _check_insecure_randomness: each of
\* the four sources, one source twice in a statement, a comment mark
RandomHeaders ==
  {"function f() public {", "function h(uint v) public view returns (uint) {",
   "function p(uint v) public pure returns (uint) {"}

RandomStmts ==
  {"r = block.timestamp;", "r = block.number;", "r = blockhash(n);",
   "r = block.difficulty;", "r = block.timestamp + block.timestamp;",
   "//", "x = 1;"}

RandomSources ==
  {ContractLines(wrapped, FunctionLines(layout, header, stmts)) :
     wrapped \in BOOLEAN, layout \in {"multi", "single"},
     header \in RandomHeaders, stmts \in Texts(RandomStmts, MaxStmts)}

\* two functions on one line, the first without parameters
FunctionPairLines(first, second, stmts) ==
  << <<first>> \o stmts \o <<"}", second, "}">> >>

SkipHeaders == {"function f() public {", "function g(uint v) external payable {"}

SkipStmts == {"t.call(d);", "x = 1;", "require(ok);"}

\* texts for detect() called on what parse() returned: the empty text,
\* contracts with and without state variables and modifiers, functions with
\* and without parameters
SkipSources ==
  {<<>>}
  \cup {ContractLines(wrapped, members \o FunctionLines(layout, header, stmts)) :
          wrapped \in BOOLEAN, members \in GuardMembers,
          layout \in {"multi", "single"}, header \in SkipHeaders,
          stmts \in Texts(SkipStmts, MaxStmts)}
  \cup {ContractLines(TRUE, members \o FunctionPairLines(first, second, stmts)) :
          members \in GuardMembers, first \in SkipHeaders, second \in SkipHeaders,
          stmts \in Texts(SkipStmts, MaxStmts)}

\* deepest nesting of brace blocks inside a function body
MaxDepth == 3

\* n lines, or one line of n fragments, that each hold the text tok
Repeat(tok, n, together) ==
  IF together THEN (IF n = 0 THEN <<>> ELSE << [i \in 1..n |-> tok] >>)
  ELSE [i \in 1..n |-> <<tok>>]

\* a contract with a function whose body holds blocks nested depth deep and
\* is followed by closers closing braces; the signature on the line of the
\* contract declaration or on its own; a last line that only closes the
\* contract or that opens another function behind the closing brace
NestedLines(joined, depth, closers, together, tail) ==
  (IF joined THEN << <<"contract A {", "function f() public {">> >>
   ELSE << <<"contract A {">>, <<"function f() public {">> >>)
  \o Repeat("{", depth, FALSE)
  \o Repeat("}", closers, together)
  \o << tail >>

NestSources ==
  {NestedLines(joined, depth, closers, together, tail) :
     joined \in BOOLEAN, depth \in 0..MaxDepth, closers \in 0..(MaxDepth + 1),
     together \in BOOLEAN,
     tail \in {<<"}">>, <<"}", "function g(uint v) external payable {">>}}

\* body lines for _check_missing_validation: assignments, calls and
\* validation in code and inside line and block comments
ValidationLines ==
  { <<"x = 1;">>, <<"//", "x = 1;">>, <<"/*", "x = 1;", "*/">>,
    <<"t.send(v);">>, <<"//", "t.send(v);">>,
    <<"require(ok);">>, <<"//", "require(ok);">>, <<"/*", "require(ok);", "*/">>,
    <<"/*">>, <<"*/">>, <<"emit E(v);">> }

ValidationHeaders ==
  {"function f() public {", "function g(uint v) external payable {",
   "function h(uint v) public view returns (uint) {",
   "function p(uint v) public pure returns (uint) {"}

ValidationSources ==
  {ContractLines(wrapped, << <<header>> >> \o body \o << <<"}">> >>) :
     wrapped \in BOOLEAN, header \in ValidationHeaders,
     body \in Texts(ValidationLines, MaxStmts)}

\* headers and statements for _check_fallback_vectors: payable or not,
\* every visibility, assignments, comparisons and msg.sender checks
FallbackHeaders ==
  {"function f() public {", "function g(uint v) external payable {",
   "function q(uint v) private payable {",
   "function h(uint v) public view returns (uint) {"}

FallbackStmts ==
  {"x = 1;", "y += v;", "o = msg.sender;", "require(x >= v);",
   "require(msg.sender == o);", "require(ok);", "t.send(v);"}

FallbackSources ==
  {ContractLines(wrapped, FunctionLines(layout, header, stmts)) :
     wrapped \in BOOLEAN, layout \in {"multi", "single"},
     header \in FallbackHeaders, stmts \in Texts(FallbackStmts, MaxStmts)}

\* lines with tx.origin in code, once and twice, and behind comment marks
OriginLines ==
  { <<"o = tx.origin;">>,
    <<"o = tx.origin;", "o = tx.origin;">>,
    <<"//", "o = tx.origin;">>,
    <<"/*", "o = tx.origin;", "*/">>,
    <<"o = tx.origin;", "//", "o = tx.origin;">>,
    <<"x = 1;">>,
    <<"contract A {", "}">>,
    <<"contract A {", "function f() public {", "o = tx.origin;", "}", "}">> }

OriginSources == Texts(OriginLines, MaxLines) \ {<<>>}

\* headers and statements for _check_delegatecall: delegatecalls with and
\* without msg.sender in the body
DelegateHeaders ==
  {"function f() public {", "function h(uint v) public view returns (uint) {"}

DelegateStmts ==
  {"t.delegatecall(d);", "o = msg.sender;", "x = 1;", "t.call(d);"}

DelegateSources ==
  {ContractLines(wrapped, FunctionLines(layout, header, stmts)) :
     wrapped \in BOOLEAN, layout \in {"multi", "single"},
     header \in DelegateHeaders, stmts \in Texts(DelegateStmts, MaxStmts)}

\* a statement of 190 characters, to move what follows a call out of the
\* windows of _check_unchecked_returns
Filler ==
  "zzzzzzzzzzzzzzzzzzzzzzzzzzzzzzzzzzzzzzzzzzzzzzzzzzzzzzzzzzzzzzzzzzzzzzzzzzzzzzzzzzzzzzzzzzzzzzzzzzzzzzzzzzzzzzzzzzzzzzzzzzzzzzzzzzzzzzzzzzzzzzzzzzzzzzzzzzzzzzzzzzzzzzzzzzzzzzzzzzzzzzzzzzzzz;"

\* bodies for _check_unchecked_returns: a call, behind it up to
\* MaxStmts + 1 fillers, then a require, a (bool ...) pattern, another call
\* or nothing; a require may stand in front of the call
ReturnCalls ==
  {"t.call(d);", "t.send(v);", "t.delegatecall(d);", "t.transfer(v);",
   "(bool ok, ) = t.call(d);"}

ReturnTails == {<<>>, <<"require(ok);">>, <<"(bool ok, ) = r;">>, <<"t.send(v);">>}

ReturnSources ==
  {ContractLines(wrapped,
     FunctionLines(layout, "function f() public {",
                   front \o <<call>> \o gap \o tail)) :
     wrapped \in BOOLEAN, layout \in {"multi", "single"},
     front \in {<<>>, <<"require(ok);">>}, call \in ReturnCalls,
     gap \in Texts({Filler}, MaxStmts + 1), tail \in ReturnTails}

\* signatures with view or pure as a keyword, inside the function's name,
\* and not at all
KeywordHeaders ==
  {"function f() public {", "function preview(uint v) public {",
   "function h(uint v) public view returns (uint) {",
   "function p(uint v) public pure returns (uint) {"}

KeywordStmts == {"t.call(d);", "x = 1;", "t.send(v);"}

KeywordSources ==
  {ContractLines(wrapped, members \o FunctionLines(layout, header, stmts)) :
     wrapped \in BOOLEAN, members \in GuardMembers, layout \in {"multi", "single"},
     header \in KeywordHeaders, stmts \in Texts(KeywordStmts, MaxStmts)}

\* lines for texts in which parse() finds no contract, with file-wide
\* patterns in them, and one line that holds a contract
BareLines ==
  { <<"o = tx.origin;">>,
    <<"a = 0x742d35Cc6634C0532925a3b844Bc9e7595f0bEb0;">>,
    <<"x = 1;">>,
    <<"}">>,
    <<"contract A {">>,
    <<"function f() public {", "o = tx.origin;", "}">>,
    <<"contract A {", "}">> }

BareSources == Texts(BareLines, MaxLines) \ {<<>>}

\* find_solidity_files returns at most MaxFiles files
MaxFiles == 3

\* the files of a scanned directory: an empty file, a file without a
\* contract, a contract without findings, a contract with a HIGH finding
\* and a contract whose only finding is of lower severity
FileSources ==
  { <<<<>>>>,
    <<<<"x = 1;">>>>,
    <<<<"contract A {", "}">>>>,
    <<<<"contract A {", "function f() public {", "o = tx.origin;", "}", "}">>>>,
    <<<<"contract A {", "a = 0x742d35Cc6634C0532925a3b844Bc9e7595f0bEb0;", "}">>>> }

\* detect() calls made on one detector object
MaxCalls == 2

\* the documents given to detect(): a payable function with a call before a
\* state write, a function of an old compiler version that uses tx.origin
\* and arithmetic, a function with an address literal, an empty contract
DetectSources ==
  { MkSource("", "multi", "function g(uint v) external payable {",
             <<"t.call(d);", "x = 1;">>),
    MkSource("pragma solidity 0.7.6;", "multi", "function f() public {",
             <<"o = tx.origin;", "c = a + b;">>),
    MkSource("", "single", "function f() public {",
             <<"a = 0x742d35Cc6634C0532925a3b844Bc9e7595f0bEb0;">>),
    <<<<"contract A {", "}">>>> }
(***************************************************************************)
(* The state machine: scan_file, with parse() step by step                 *)
(***************************************************************************)
\* no second parse() call, no main and no detector call under way
InitRest ==
  /\ parse_calls = 1
  /\ first_parse = <<>>
  /\ sol_files = <<>>
  /\ results = <<>>
  /\ main_exit = 0
  /\ main_pc = "idle"
  /\ heap = <<>>
  /\ self_findings = 0
  /\ invocations = <<>>

InitState(source) ==
  /\ InitRest
  /\ lines = source
  /\ contracts = <<>>
  /\ pc = "parse"
  /\ idx = 0
  /\ parse_result = [raised |-> FALSE, value |-> <<>>]
  /\ det = 1
  /\ findings = [d \in 1..NumDetectors |-> <<>>]
  /\ all_findings = <<>>
  /\ exit_code = -1
  /\ scored = <<>>
  /\ score = calculate_score(<<>>)

\* parse(): self._extract_contracts()
ExtractContracts ==
  /\ pc = "parse"
  /\ contracts' = contracts \o _extract_contracts(lines)
  /\ idx' = 1
  /\ pc' = "members"
  /\ UNCHANGED <<lines, parse_result, det, findings, all_findings, exit_code,
                 scored, score>>
  /\ UNCHANGED <<reparse_vars, main_vars, object_vars>>

\* parse(): one turn of `for contract in self.contracts`
ExtractMembers ==
  /\ pc = "members"
  /\ idx <= Len(contracts)
  /\ contracts' = [contracts EXCEPT ![idx] = ParseContract(@, lines)]
  /\ idx' = idx + 1
  /\ UNCHANGED <<lines, pc, parse_result, det, findings, all_findings, exit_code,
                 scored, score>>
  /\ UNCHANGED <<reparse_vars, main_vars, object_vars>>

\* parse(): return self.contracts
ParseReturn ==
  /\ pc = "members"
  /\ idx > Len(contracts)
  /\ parse_result' = [raised |-> FALSE, value |-> contracts]
  /\ pc' = "parsed"
  /\ UNCHANGED <<lines, contracts, idx, det, findings, all_findings, exit_code,
                 scored, score>>
  /\ UNCHANGED <<reparse_vars, main_vars, object_vars>>

\* parse(): a statement of the try block raises an Exception
ParseExcept ==
  /\ pc \in {"parse", "members"}
  /\ parse_result' = parse_except
  /\ pc' = "parsed"
  /\ UNCHANGED <<lines, contracts, idx, det, findings, all_findings, exit_code,
                 scored, score>>
  /\ UNCHANGED <<reparse_vars, main_vars, object_vars>>

\* seeded fault: the file-wide checks run and decide the exit code
NoContracts_after_file_checks ==
  /\ pc = "parsed"
  /\ ~parse_result.raised
  /\ parse_result.value = <<>>
  /\ exit_code' = get_exit_code(Detect(2, <<>>, lines) \o Detect(3, <<>>, lines), FALSE)
  /\ pc' = "done"
  /\ UNCHANGED <<lines, contracts, idx, parse_result, det, findings, all_findings,
                 scored, score>>
  /\ UNCHANGED <<reparse_vars, main_vars, object_vars>>

\* scan_file: `if not contracts: return 0`
NoContracts ==
  /\ pc = "parsed"
  /\ ~parse_result.raised
  /\ parse_result.value = <<>>
  /\ exit_code' = 0
  /\ pc' = "done"
  /\ UNCHANGED <<lines, contracts, idx, parse_result, det, findings, all_findings,
                 scored, score>>
  /\ UNCHANGED <<reparse_vars, main_vars, object_vars>>

\* scan_file: one turn of `for detector in detectors`
RunDetector ==
  /\ pc = "parsed"
  /\ ~parse_result.raised
  /\ parse_result.value # <<>>
  /\ det <= NumDetectors
  /\ findings' = [findings EXCEPT ![det] = Detect(det, parse_result.value, lines)]
  /\ all_findings' = Extend(all_findings, findings'[det])
  /\ det' = det + 1
  /\ UNCHANGED <<lines, contracts, pc, idx, parse_result, exit_code, scored, score>>
  /\ UNCHANGED <<reparse_vars, main_vars, object_vars>>

\* scan_file: return reporter.get_exit_code(critical_only=critical_only)
Report ==
  /\ pc = "parsed"
  /\ ~parse_result.raised
  /\ parse_result.value # <<>>
  /\ det > NumDetectors
  /\ \E critical_only \in BOOLEAN :
       exit_code' = get_exit_code(all_findings, critical_only)
  /\ pc' = "done"
  /\ UNCHANGED <<lines, contracts, idx, parse_result, det, findings, all_findings,
                 scored, score>>
  /\ UNCHANGED <<reparse_vars, main_vars, object_vars>>

\* score_file: calculate_score over a finding list one finding longer
AddFinding ==
  /\ Len(scored) < MaxFindings
  /\ \E severity \in Severities :
       scored' = Append(scored, Finding(severity, "", 1, ""))
  /\ score' = calculate_score(scored')
  /\ UNCHANGED <<lines, contracts, pc, idx, parse_result, det, findings,
                 all_findings, exit_code>>
  /\ UNCHANGED <<reparse_vars, main_vars, object_vars>>


\* Reporter(findings).get_exit_code(critical_only) on the empty finding list
InitReporter ==
  /\ InitRest
  /\ lines = <<>>
  /\ contracts = <<>>
  /\ pc = "done"
  /\ idx = 0
  /\ parse_result = [raised |-> FALSE, value |-> <<>>]
  /\ det = 1
  /\ findings = [d \in 1..NumDetectors |-> <<>>]
  /\ all_findings = <<>>
  /\ scored = <<>>
  /\ score = calculate_score(<<>>)
  /\ \E critical_only \in BOOLEAN :
       exit_code = get_exit_code(scored, critical_only)

\* Reporter(findings).get_exit_code(critical_only) on a finding list one
\* finding longer
GetExitCode ==
  /\ Len(scored) < MaxFindings
  /\ \E severity \in Severities :
       scored' = Append(scored, Finding(severity, "", 1, ""))
  /\ \E critical_only \in BOOLEAN :
       exit_code' = get_exit_code(scored', critical_only)
  /\ UNCHANGED <<lines, contracts, pc, idx, parse_result, det, findings,
                 all_findings, score>>
  /\ UNCHANGED <<reparse_vars, main_vars, object_vars>>

\* detector.detect(contracts, source_code, file_path) on the list parse()
\* returned, empty or not
DetectReturned ==
  /\ pc = "parsed"
  /\ ~parse_result.raised
  /\ det <= NumDetectors
  /\ findings' = [findings EXCEPT ![det] = Detect(det, parse_result.value, lines)]
  /\ all_findings' = Extend(all_findings, findings'[det])
  /\ det' = det + 1
  /\ UNCHANGED <<lines, contracts, pc, idx, parse_result, exit_code, scored, score>>
  /\ UNCHANGED <<reparse_vars, main_vars, object_vars>>

\* a second parse() call on the same SolidityParser begins: self.contracts
\* is set in __init__ only and keeps what the first call recorded, and the
\* list the first call returned is self.contracts itself
ParseAgain ==
  /\ pc = "parsed"
  /\ ~parse_result.raised
  /\ parse_calls = 1
  /\ parse_calls' = 2
  /\ first_parse' = parse_result.value
  /\ pc' = "parse"
  /\ idx' = 0
  /\ UNCHANGED <<lines, contracts, parse_result, det, findings, all_findings,
                 exit_code, scored, score>>
  /\ UNCHANGED <<main_vars, object_vars>>

\* main, scan command: sol_files = find_solidity_files(args.path)
InitMain(files) ==
  /\ sol_files = files
  /\ results = <<>>
  /\ main_exit = 0
  /\ main_pc = "scan"
  /\ lines = <<>>
  /\ contracts = <<>>
  /\ pc = "idle"
  /\ idx = 0
  /\ parse_result = [raised |-> FALSE, value |-> <<>>]
  /\ det = 1
  /\ findings = [d \in 1..NumDetectors |-> <<>>]
  /\ all_findings = <<>>
  /\ exit_code = -1
  /\ scored = <<>>
  /\ score = calculate_score(<<>>)
  /\ parse_calls = 1
  /\ first_parse = <<>>
  /\ heap = <<>>
  /\ self_findings = 0
  /\ invocations = <<>>

\* main: `if not sol_files: ... return 1`
MainNoFiles ==
  /\ main_pc = "scan"
  /\ sol_files = <<>>
  /\ main_exit' = 1
  /\ main_pc' = "returned"
  /\ UNCHANGED <<lines, contracts, pc, idx, parse_result, det, findings,
                 all_findings, exit_code, scored, score, sol_files, results>>
  /\ UNCHANGED <<reparse_vars, object_vars>>

\* main: one turn of `for sol_file in sol_files` up to the call
\* scan_file(sol_file, ...); scan_file reads the file, returns 1 when the
\* text is empty and otherwise constructs a new SolidityParser
CallScanFile ==
  /\ main_pc = "scan"
  /\ pc = "idle"
  /\ Len(results) < Len(sol_files)
  /\ lines' = sol_files[Len(results) + 1]
  /\ contracts' = <<>>
  /\ idx' = 0
  /\ parse_result' = [raised |-> FALSE, value |-> <<>>]
  /\ det' = 1
  /\ findings' = [d \in 1..NumDetectors |-> <<>>]
  /\ all_findings' = <<>>
  /\ IF lines' = <<<<>>>>
     THEN exit_code' = 1 /\ pc' = "done"
     ELSE exit_code' = -1 /\ pc' = "parse"
  /\ UNCHANGED <<scored, score, main_vars>>
  /\ UNCHANGED <<reparse_vars, object_vars>>

\* seeded fault: exit_code = result, whatever the result
ScanFileReturned_last_result ==
  /\ main_pc = "scan"
  /\ pc = "done"
  /\ results' = Append(results, exit_code)
  /\ main_exit' = exit_code
  /\ pc' = "idle"
  /\ UNCHANGED <<lines, contracts, idx, parse_result, det, findings,
                 all_findings, exit_code, scored, score, sol_files, main_pc>>
  /\ UNCHANGED <<reparse_vars, object_vars>>

\* main: result = scan_file(...); if result != 0: exit_code = result
ScanFileReturned ==
  /\ main_pc = "scan"
  /\ pc = "done"
  /\ results' = Append(results, exit_code)
  /\ main_exit' = IF exit_code # 0 THEN exit_code ELSE main_exit
  /\ pc' = "idle"
  /\ UNCHANGED <<lines, contracts, idx, parse_result, det, findings,
                 all_findings, exit_code, scored, score, sol_files, main_pc>>
  /\ UNCHANGED <<reparse_vars, object_vars>>

\* main: return exit_code, after the loop
MainReturn ==
  /\ main_pc = "scan"
  /\ pc = "idle"
  /\ sol_files # <<>>
  /\ Len(results) = Len(sol_files)
  /\ main_pc' = "returned"
  /\ UNCHANGED <<lines, contracts, pc, idx, parse_result, det, findings,
                 all_findings, exit_code, scored, score, sol_files, results,
                 main_exit>>
  /\ UNCHANGED <<reparse_vars, object_vars>>

\* a detector object after BaseDetector.__init__: self.findings = [];
\* det says which of scan_file's four detector classes it is
InitDetector(d) ==
  /\ det = d
  /\ heap = <<<<>>>>
  /\ self_findings = 1
  /\ invocations = <<>>
  /\ lines = <<>>
  /\ contracts = <<>>
  /\ pc = "idle"
  /\ idx = 0
  /\ parse_result = [raised |-> FALSE, value |-> <<>>]
  /\ findings = [k \in 1..NumDetectors |-> <<>>]
  /\ all_findings = <<>>
  /\ exit_code = -1
  /\ scored = <<>>
  /\ score = calculate_score(<<>>)
  /\ parse_calls = 1
  /\ first_parse = <<>>
  /\ sol_files = <<>>
  /\ results = <<>>
  /\ main_exit = 0
  /\ main_pc = "idle"

\* the findings detector d's checks pass to add_finding, in order, for the
\* call detect(SolidityParser(source).parse(), source, path): no check reads
\* self.findings
DetectOn(d, source) ==
  LET cs == _extract_contracts(source)
  IN  Detect(d, [i \in 1..Len(cs) |-> ParseContract(cs[i], source)], source)

\* seeded fault: self.findings.clear() in place of self.findings = []
CallDetect_clear ==
  /\ Len(invocations) < MaxCalls
  /\ \E source \in DetectSources :
       invocations' = Append(invocations,
                             [source |-> source, todo |-> DetectOn(det, source),
                              pc |-> "run", ret |-> 0])
  /\ heap' = [heap EXCEPT ![self_findings] = <<>>]
  /\ UNCHANGED self_findings
  /\ UNCHANGED <<lines, contracts, pc, idx, parse_result, det, findings,
                 all_findings, exit_code, scored, score>>
  /\ UNCHANGED <<reparse_vars, main_vars>>

\* detect() is called and executes `self.findings = []`: a new list object
CallDetect ==
  /\ Len(invocations) < MaxCalls
  /\ \E source \in DetectSources :
       invocations' = Append(invocations,
                             [source |-> source, todo |-> DetectOn(det, source),
                              pc |-> "run", ret |-> 0])
  /\ heap' = Append(heap, <<>>)
  /\ self_findings' = Len(heap) + 1
  /\ UNCHANGED <<lines, contracts, pc, idx, parse_result, det, findings,
                 all_findings, exit_code, scored, score>>
  /\ UNCHANGED <<reparse_vars, main_vars>>

\* add_finding: self.findings.append(finding), on the list self.findings
\* refers to at that moment
DetectAdd ==
  \E i \in 1..Len(invocations) :
    /\ invocations[i].pc = "run"
    /\ invocations[i].todo # <<>>
    /\ heap' = [heap EXCEPT ![self_findings] = Append(@, Head(invocations[i].todo))]
    /\ invocations' = [invocations EXCEPT ![i].todo = Tail(@)]
    /\ UNCHANGED self_findings
    /\ UNCHANGED <<lines, contracts, pc, idx, parse_result, det, findings,
                   all_findings, exit_code, scored, score>>
    /\ UNCHANGED <<reparse_vars, main_vars>>

\* detect(): return self.findings, the list object itself
DetectReturn ==
  \E i \in 1..Len(invocations) :
    /\ invocations[i].pc = "run"
    /\ invocations[i].todo = <<>>
    /\ invocations' = [invocations EXCEPT ![i].pc = "done", ![i].ret = self_findings]
    /\ UNCHANGED <<heap, self_findings>>
    /\ UNCHANGED <<lines, contracts, pc, idx, parse_result, det, findings,
                   all_findings, exit_code, scored, score>>
    /\ UNCHANGED <<reparse_vars, main_vars>>

\* the caller makes one detect() call after the other
NoCallInProgress == \A i \in 1..Len(invocations) : invocations[i].pc = "done"
NextParse == ExtractContracts \/ ExtractMembers \/ ParseReturn

NextScan == NextParse \/ NoContracts \/ RunDetector \/ Report

\* scan_file on one source text
Spec == (\E source \in ScanSources : InitState(source)) /\ [][NextScan]_vars

\* parse() alone, on texts with unbalanced and misplaced braces
SpecParse == (\E source \in StructSources : InitState(source)) /\ [][NextParse]_vars

\* parse() when a statement of its try block may raise
SpecFault ==
  (\E source \in StructSources : InitState(source))
  /\ [][NextParse \/ ParseExcept]_vars

\* calculate_score as the finding list grows
SpecScore == InitState(<<>>) /\ [][AddFinding]_vars


\* scan_file on contracts with and without a nonReentrant modifier
SpecGuard == (\E source \in GuardSources : InitState(source)) /\ [][NextScan]_vars

\* scan_file on texts with address literals
SpecAddress ==
  (\E source \in AddressSources : InitState(source)) /\ [][NextScan]_vars

\* scan_file on functions that read block properties
SpecRandom ==
  (\E source \in RandomSources : InitState(source)) /\ [][NextScan]_vars

\* get_exit_code as the finding list grows
SpecExit == InitReporter /\ [][GetExitCode]_vars

NextDetect == NextParse \/ DetectReturned

\* parse() and then each detector's detect() on its result
SpecSkip == (\E source \in SkipSources : InitState(source)) /\ [][NextDetect]_vars

\* parse() on functions with nested blocks
SpecNest == (\E source \in NestSources : InitState(source)) /\ [][NextParse]_vars

\* scan_file on functions with comments in their bodies
SpecValidation ==
  (\E source \in ValidationSources : InitState(source)) /\ [][NextScan]_vars

\* scan_file on payable functions with assignments and comparisons
SpecFallback ==
  (\E source \in FallbackSources : InitState(source)) /\ [][NextScan]_vars

\* scan_file on texts that use tx.origin
SpecOrigin ==
  (\E source \in OriginSources : InitState(source)) /\ [][NextScan]_vars

\* scan_file on functions that use delegatecall
SpecDelegate ==
  (\E source \in DelegateSources : InitState(source)) /\ [][NextScan]_vars

\* scan_file on functions whose calls are followed by checks near and far
SpecReturn ==
  (\E source \in ReturnSources : InitState(source)) /\ [][NextScan]_vars

\* scan_file on functions with view and pure in and around their names
SpecKeyword ==
  (\E source \in KeywordSources : InitState(source)) /\ [][NextScan]_vars

\* scan_file on texts with and without a contract
SpecBare == (\E source \in BareSources : InitState(source)) /\ [][NextScan]_vars

\* parse() called twice on one parser
SpecReparse ==
  (\E source \in StructSources : InitState(source))
  /\ [][NextParse \/ ParseAgain]_vars

\* main's scan command over the files find_solidity_files returned
SpecMain ==
  (\E files \in Texts(FileSources, MaxFiles) : InitMain(files))
  /\ [][NextScan \/ MainNoFiles \/ CallScanFile \/ ScanFileReturned
        \/ MainReturn]_vars

\* one detector object used for one detect() call after the other
SpecReuse ==
  (\E d \in 1..NumDetectors : InitDetector(d))
  /\ [][(NoCallInProgress /\ CallDetect) \/ DetectAdd \/ DetectReturn]_vars

\* one detector object used by callers that do not wait for each other
SpecInterleave ==
  (\E d \in 1..NumDetectors : InitDetector(d))
  /\ [][CallDetect \/ DetectAdd \/ DetectReturn]_vars
(***************************************************************************)
(* Properties                                                              *)
(***************************************************************************)
\* the fragments of a text in reading order, each with its line number
Fragments(text) ==
  Flatten([l \in 1..Len(text) |->
             [k \in 1..Len(text[l]) |-> [line |-> l, tok |-> text[l][k]]]])

\* +1 for every "{" and -1 for every "}" of the fragments a..b
RECURSIVE Depth(_, _, _)
Depth(frags, a, b) ==
  IF b < a THEN 0
  ELSE Depth(frags, a, b - 1)
       + Cardinality({n \in 1..Len(TokBraces(frags[b].tok)) :
                        TokBraces(frags[b].tok)[n] = "{"})
       - Cardinality({n \in 1..Len(TokBraces(frags[b].tok)) :
                        TokBraces(frags[b].tok)[n] = "}"})

\* the contract declarations of a text: indices into its fragments
Declarations(text) ==
  {a \in 1..Len(Fragments(text)) : contract_pattern(Fragments(text)[a].tok) # ""}

\* the brace the declaration at fragment a opens is closed again in the text
Closes(text, a) ==
  \E b \in a..Len(Fragments(text)) : Depth(Fragments(text), a, b) = 0

\* parse() has returned a contract for the declaration at fragment a
Recorded(text, a, value) ==
  \E c \in 1..Len(value) :
    /\ value[c].name = contract_pattern(Fragments(text)[a].tok)
    /\ value[c].line_start = Fragments(text)[a].line

\* the text's braces do not balance
Unbalanced(text) ==
  \/ Depth(Fragments(text), 1, Len(Fragments(text))) # 0
  \/ \E b \in 1..Len(Fragments(text)) : Depth(Fragments(text), 1, b) < 0

\* C1: for every source text, texts with unbalanced or unterminated braces
\* included, parse() returns a list of contracts (the ones it recorded, or
\* none) and raises nothing to its caller, also when a statement of its try
\* block raises
C1_parse_never_raises ==
  pc = "parsed" =>
    /\ ~parse_result.raised
    /\ parse_result.value \in {<<>>, contracts}
    /\ \A c \in 1..Len(parse_result.value) :
         parse_result.value[c].name \in {"A", "B"}

\* C1: parse() has returned on a text whose braces do not balance and that
\* holds a contract declaration that never closes
C1_witness_unbalanced_parsed ==
  /\ pc = "parsed"
  /\ Unbalanced(lines)
  /\ \E a \in Declarations(lines) : ~Closes(lines, a)
  /\ ~parse_result.raised

\* C4: the finding sequence of a scan is the concatenation of the outputs of
\* the Reentrancy, Validation, BadPatterns and InsecureCalls detectors in
\* that order, each in the order the detector found them: nothing is
\* reordered, dropped or duplicated
C4_findings_concatenated ==
  /\ all_findings = findings[1] \o findings[2] \o findings[3] \o findings[4]
  /\ pc = "done" /\ parse_result.value # <<>> =>
       all_findings = ReentrancyDetect(parse_result.value, lines)
                      \o ValidationDetect(parse_result.value, lines)
                      \o BadPatternsDetect(parse_result.value, lines)
                      \o InsecureCallsDetect(parse_result.value, lines)

\* C4: a finished scan in which three detectors found something and a less
\* severe finding stands before a more severe one
C4_witness_unsorted_scan ==
  /\ pc = "done"
  /\ Cardinality({d \in 1..NumDetectors : findings[d] # <<>>}) >= 3
  /\ \E i, j \in 1..Len(all_findings) :
       /\ i < j
       /\ severity_weights(all_findings[i].severity)
            < severity_weights(all_findings[j].severity)

\* C5: calculate_score is max(0, 100 - sum of the weights 20/15/10/5/2 of
\* CRITICAL/HIGH/MEDIUM/LOW/INFO); it lies in [0,100], appending a finding
\* never raises it, and five CRITICAL findings score 0
C5_score_formula ==
  LET count(s) == Cardinality({n \in 1..Len(scored) : scored[n].severity = s})
      sum == 20 * count("CRITICAL") + 15 * count("HIGH") + 10 * count("MEDIUM")
             + 5 * count("LOW") + 2 * count("INFO")
  IN  /\ score = (IF 100 - sum > 0 THEN 100 - sum ELSE 0)
      /\ score \in 0..100
      /\ \A s \in Severities :
           calculate_score(Append(scored, Finding(s, "", 1, ""))) <= score
      /\ (Len(scored) = 5 /\ \A n \in 1..5 : scored[n].severity = "CRITICAL")
           => score = 0

\* C5: five CRITICAL findings and a sixth: the penalty is past 100 and the
\* score is 0
C5_witness_clamped ==
  /\ Len(scored) = 6
  /\ \A n \in 1..5 : scored[n].severity = "CRITICAL"
  /\ total_penalty(scored) > 100
  /\ score = 0

\* C8: every recorded entity has a valid nested line range: a contract within
\* the source, a function within its contract, a state variable within its
\* contract
C8_nested_ranges ==
  pc = "parsed" =>
    \A c \in 1..Len(parse_result.value) :
      LET contract == parse_result.value[c]
      IN  /\ 1 <= contract.line_start
          /\ contract.line_start <= contract.line_end
          /\ contract.line_end <= Len(lines)
          /\ \A f \in 1..Len(contract.functions) :
               /\ contract.line_start <= contract.functions[f].line_start
               /\ contract.functions[f].line_start <= contract.functions[f].line_end
               /\ contract.functions[f].line_end <= contract.line_end
          /\ \A v \in 1..Len(contract.state_variables) :
               /\ contract.line_start <= contract.state_variables[v].line_number
               /\ contract.state_variables[v].line_number <= contract.line_end

\* C8: a parsed contract of several lines with a state variable and a
\* function that ends on the contract's last line
C8_witness_function_and_variable ==
  /\ pc = "parsed"
  /\ \E c \in 1..Len(parse_result.value) :
       LET contract == parse_result.value[c]
       IN  /\ contract.line_start < contract.line_end
           /\ contract.state_variables # <<>>
           /\ \E f \in 1..Len(contract.functions) :
                contract.functions[f].line_end = contract.line_end

\* C10: every finding of the four detectors, run on the model parsed from the
\* same text, has a line_number within 1..number of lines of the text, and a
\* finding that names a function has it within that function's range
C10_finding_lines ==
  \A d \in 1..NumDetectors : \A n \in 1..Len(findings[d]) :
    LET finding == findings[d][n]
        fs == FuncsOf(parse_result.value)
    IN  /\ 1 <= finding.line_number
        /\ finding.line_number <= Len(lines)
        /\ finding.function_name # "" =>
             \E f \in 1..Len(fs) :
               /\ fs[f].func.name = finding.function_name
               /\ fs[f].func.line_start <= finding.line_number
               /\ finding.line_number <= fs[f].func.line_end

\* C10: a finished scan with a finding on a line of a function behind the
\* function's first line, and with a finding that names no function
C10_witness_offset_lines ==
  LET fs == FuncsOf(parse_result.value)
      all == all_findings
  IN  /\ pc = "done"
      /\ \E n \in 1..Len(all), f \in 1..Len(fs) :
           /\ all[n].function_name = fs[f].func.name
           /\ all[n].line_number > fs[f].func.line_start
      /\ \E n \in 1..Len(all) : all[n].function_name = ""

\* C2: for each function that is neither view nor pure, ReentrancyDetector
\* emits exactly one CRITICAL "External Call Before State Update" finding per
\* external-call occurrence (.call, .send, .transfer, .delegatecall, with or
\* without a {...} clause) that a state-variable write follows at a greater
\* offset, however many writes follow, and none when every write precedes
\* every call
C2_one_finding_per_offending_call ==
  det > 1 =>
    \A n \in 1..Len(FuncsOf(parse_result.value)) :
      LET func == FuncsOf(parse_result.value)[n].func
          contract == FuncsOf(parse_result.value)[n].contract
          calls == TextMatches(<<"external_call_re">>, func.body)
          writes == WritePositions(func.body,
                      [v \in 1..Len(contract.state_variables) |->
                         contract.state_variables[v].name])
          offending == {c \in 1..Len(calls) :
                          \E w \in 1..Len(writes) : calls[c] < writes[w].pos}
          emitted == {i \in 1..Len(findings[1]) :
                        /\ findings[1][i].severity = "CRITICAL"
                        /\ findings[1][i].title =
                             "Reentrancy Vulnerability: External Call Before State Update"
                        /\ findings[1][i].function_name = func.name}
      IN  ~(func.is_view \/ func.is_pure) =>
            Cardinality(emitted) = Cardinality(offending)

\* C3: when the source declares `pragma solidity ^0.8.0;`, or a pragma whose
\* major.minor version is at least 0.8, ValidationDetector emits no
\* "Potential Integer Overflow/Underflow" finding, whatever arithmetic the
\* function bodies hold
C3_no_overflow_finding_from_0_8 ==
  (/\ det > 2
   /\ lines # <<>>
   /\ lines[1] \in {<<"pragma solidity ^0.8.0;">>, <<"pragma solidity 0.8.0;">>})
  => \A n \in 1..Len(findings[2]) :
       findings[2][n].title \notin {ArithmeticTitle(i) : i \in 1..3}

\* C6: a contract declaration whose brace depth never returns to zero before
\* the end of the input is not recorded, and every other contract declaration
\* of the source whose braces do close, before or after it, is recorded by
\* the same parse() call
C6_unterminated_skipped_others_kept ==
  pc = "parsed" =>
    \A u \in Declarations(lines) :
      ~Closes(lines, u) =>
        /\ ~Recorded(lines, u, parse_result.value)
        /\ \A a \in Declarations(lines) \ {u} :
             Closes(lines, a) => Recorded(lines, a, parse_result.value)

\* C7: for a source with exactly one `contract Name { ... }` declaration and
\* no function, parse() returns exactly one Contract, named Name, with an
\* empty function list
C7_single_contract_no_function ==
  (/\ pc = "parsed"
   /\ Cardinality(Declarations(lines)) = 1
   /\ \A a \in Declarations(lines) : Closes(lines, a)
   /\ \A b \in 1..Len(Fragments(lines)) : function_pattern(Fragments(lines)[b].tok) = "")
  => /\ Len(parse_result.value) = 1
     /\ \A a \in Declarations(lines) :
          parse_result.value[1].name = contract_pattern(Fragments(lines)[a].tok)
     /\ parse_result.value[1].functions = <<>>

\* C9: the body of every recorded function is the brace-balanced text bounded
\* by its range: it spans the lines line_start..line_end, holds as many "{"
\* as "}", and ends at the brace that closes the function, so that no text of
\* the enclosing contract (its closing brace, say) is part of it
C9_body_is_balanced_function_text ==
  pc = "parsed" =>
    \A n \in 1..Len(FuncsOf(parse_result.value)) :
      LET func == FuncsOf(parse_result.value)[n].func
          frags == Fragments(func.body)
          heads == {h \in 1..Len(frags) : function_pattern(frags[h].tok) = func.name}
      IN  /\ func.body = SubSeq(lines, func.line_start, func.line_end)
          /\ Depth(frags, 1, Len(frags)) = 0
          /\ heads # {}
          /\ \A e \in Min(heads)..Len(frags) :
               Depth(frags, Min(heads), e) = 0 <=> e = Len(frags)

\* C11: for a function that is neither view nor pure, ReentrancyDetector
\* emits exactly one HIGH "Missing Reentrancy Guard" finding if and only if
\* the body matches the external-call pattern, the function's modifier list
\* lacks nonReentrant and the owning contract declares a nonReentrant
\* modifier; a view or pure function, and any function of a contract that
\* does not declare nonReentrant, gets none
C11_missing_guard_iff ==
  det > 1 =>
    \A n \in 1..Len(FuncsOf(parse_result.value)) :
      LET func == FuncsOf(parse_result.value)[n].func
          contract == FuncsOf(parse_result.value)[n].contract
          emitted == {i \in 1..Len(findings[1]) :
                        /\ findings[1][i].severity = "HIGH"
                        /\ findings[1][i].title = "Missing Reentrancy Guard"
                        /\ findings[1][i].function_name = func.name}
          calls == \E l \in 1..Len(func.body) : \E k \in 1..Len(func.body[l]) :
                     external_call_re(func.body[l][k]) # <<>>
          guarded == "nonReentrant" \in {func.modifiers[m] : m \in 1..Len(func.modifiers)}
          declared == "nonReentrant" \in
                        {contract.modifiers[m] : m \in 1..Len(contract.modifiers)}
      IN  Cardinality(emitted) =
            (IF ~func.is_view /\ ~func.is_pure /\ calls /\ ~guarded /\ declared
             THEN 1 ELSE 0)

\* C11: a scan that reported a missing guard for a function with two
\* external calls in a contract that declares nonReentrant
C11_witness_guard_reported ==
  /\ det > 1
  /\ \E n \in 1..Len(FuncsOf(parse_result.value)) :
       LET func == FuncsOf(parse_result.value)[n].func
       IN  /\ Len(TextMatches(<<"external_call_re">>, func.body)) = 2
           /\ \E i \in 1..Len(findings[1]) :
                /\ findings[1][i].title = "Missing Reentrancy Guard"
                /\ findings[1][i].function_name = func.name

\* the occurrences of the text lit on a line that no "//" or "/*" precedes
\* on that line: pairs of a fragment and an occurrence in it
OpenOccurrences(line, lit) ==
  {<<k, n>> \in (1..Len(line)) \X (1..2) :
     /\ n <= Len(StrFind(lit, line[k]))
     /\ \A j \in 1..(k - 1) :
          StrFind("//", line[j]) = <<>> /\ StrFind("/*", line[j]) = <<>>}

\* C12: ValidationDetector emits one LOW "Hardcoded Address" finding for
\* every occurrence of 0x and 40 hex digits on any source line, in a function
\* or not, except the occurrences that "//" or "/*" precedes on the line;
\* each carries the line's number and names the 42-character literal
C12_hardcoded_address_per_occurrence ==
  det > 2 =>
    LET lits == {"0x742d35Cc6634C0532925a3b844Bc9e7595f0bEb0",
                 "0x9f86d081884c7d659a2feaa0c55ad015a3bf4f1b"}
        found == {i \in 1..Len(findings[2]) :
                    findings[2][i].title = "Hardcoded Address"}
    IN  /\ \A i \in found :
             /\ findings[2][i].severity = "LOW"
             /\ findings[2][i].line_number \in 1..Len(lines)
             /\ findings[2][i].description[2] \in lits
             /\ Len(findings[2][i].description[2]) = 42
        /\ \A l \in 1..Len(lines) : \A lit \in lits :
             Cardinality({i \in found : /\ findings[2][i].line_number = l
                                        /\ findings[2][i].description[2] = lit})
               = Cardinality(OpenOccurrences(lines[l], lit))

\* C12: a scan with an address reported outside the contract, an address
\* skipped behind a comment mark, and the head of a longer hex literal
\* reported
C12_witness_reported_and_skipped ==
  /\ det > 2
  /\ \E i \in 1..Len(findings[2]) :
       /\ findings[2][i].title = "Hardcoded Address"
       /\ findings[2][i].description[2] = "0x9f86d081884c7d659a2feaa0c55ad015a3bf4f1b"
  /\ \E i \in 1..Len(findings[2]) :
       /\ findings[2][i].title = "Hardcoded Address"
       /\ findings[2][i].description[2] = "0x742d35Cc6634C0532925a3b844Bc9e7595f0bEb0"
       /\ \A c \in 1..Len(parse_result.value) :
            findings[2][i].line_number \notin
              parse_result.value[c].line_start..parse_result.value[c].line_end
  /\ \E l \in 1..Len(lines) :
       /\ lines[l][1] \in {"//", "/*"}
       /\ Len(lines[l]) > 1
       /\ \A i \in 1..Len(findings[2]) : findings[2][i].line_number # l

\* the number of fragments of a function body that hold the i-th randomness
\* source
SourceFragments(i, body) ==
  Cardinality({<<l, k>> \in (1..Len(body)) \X (1..(MaxStmts + 3)) :
                 /\ k <= Len(body[l])
                 /\ finditer(<<"insecure_patterns", i>>, body[l][k]) # <<>>})

\* C13: for every function, view and pure ones included, BadPatternsDetector
\* emits exactly one HIGH "Insecure Randomness" finding for each of the four
\* sources that occurs in the body, however often it occurs, and none for a
\* source that does not occur
C13_one_randomness_finding_per_source ==
  det > 3 =>
    \A c \in 1..Len(parse_result.value) :
      \A f \in 1..Len(parse_result.value[c].functions) :
        LET func == parse_result.value[c].functions[f]
        IN  \A i \in 1..4 :
              /\ Cardinality({n \in 1..Len(findings[3]) :
                     /\ findings[3][n].title = RandomnessTitle(i)
                     /\ findings[3][n].function_name = func.name})
                   = IF SourceFragments(i, func.body) > 0 THEN 1 ELSE 0
              /\ \A n \in 1..Len(findings[3]) :
                   findings[3][n].title = RandomnessTitle(i)
                     => findings[3][n].severity = "HIGH"

\* C13: a view function whose body reads block.timestamp twice and
\* blockhash once, with one finding for each of the two sources
C13_witness_repeated_source_in_view ==
  /\ det > 3
  /\ \E c \in 1..Len(parse_result.value) :
       \E f \in 1..Len(parse_result.value[c].functions) :
         LET func == parse_result.value[c].functions[f]
         IN  /\ func.visibility = "public"
             /\ func.is_view
             /\ \E l \in 1..Len(func.body) : \E k \in 1..Len(func.body[l]) :
                  Len(finditer(<<"insecure_patterns", 1>>, func.body[l][k])) = 2
             /\ SourceFragments(3, func.body) > 0
             /\ Len(findings[3]) = 2

\* C14: get_exit_code returns 1 exactly when the finding list holds a finding
\* of severity CRITICAL or HIGH and 0 otherwise, the empty list included, and
\* returns the same for critical_only true and false
C14_exit_code_high_or_critical ==
  /\ exit_code = IF \E n \in 1..Len(scored) :
                      scored[n].severity = "CRITICAL" \/ scored[n].severity = "HIGH"
                 THEN 1 ELSE 0
  /\ get_exit_code(scored, TRUE) = get_exit_code(scored, FALSE)

\* C14: exit code 1 for a list whose only serious finding is a HIGH one
\* behind a MEDIUM one
C14_witness_high_after_medium ==
  /\ Len(scored) = 2
  /\ scored[1].severity = "MEDIUM"
  /\ scored[2].severity = "HIGH"
  /\ exit_code = 1

\* the findings of detector d with the given title for the function func
FindingsFor(d, title, func) ==
  {i \in 1..Len(findings[d]) : /\ findings[d][i].title = title
                                /\ findings[d][i].function_name = func.name
                                /\ findings[d][i].line_number = func.line_start}

\* the signature of func, on its first line, has an empty parameter list
NoParameters(func) ==
  \E k \in 1..Len(lines[func.line_start]) :
    /\ group1(<<"function_pattern">>, lines[func.line_start][k]) = func.name
    /\ StrFind("()", lines[func.line_start][k]) # <<>>

\* C15: each of the four detectors returns no finding for an empty contract
\* list and an empty source text; for a contract without state variables the
\* check-effects-interactions check adds no finding, for a contract without
\* modifiers the missing-guard check adds none, and for a function without
\* parameters the missing-validation check adds none
C15_empty_collections_skip_checks ==
  det > NumDetectors =>
    /\ (parse_result.value = <<>> /\ lines = <<>>) =>
         \A d \in 1..NumDetectors : findings[d] = <<>>
    /\ \A n \in 1..Len(FuncsOf(parse_result.value)) :
         LET func == FuncsOf(parse_result.value)[n].func
             contract == FuncsOf(parse_result.value)[n].contract
         IN  /\ contract.state_variables = <<>> =>
                  FindingsFor(1, "Reentrancy Vulnerability: External Call Before State Update",
                              func) = {}
             /\ contract.modifiers = <<>> =>
                  FindingsFor(1, "Missing Reentrancy Guard", func) = {}
             /\ NoParameters(func) =>
                  FindingsFor(2, "Missing Input Validation", func) = {}

\* the name and the span of every contract of a list
Spans(cs) ==
  [c \in 1..Len(cs) |-> <<cs[c].name, cs[c].line_start, cs[c].line_end>>]

\* C16: when a statement of parse() fails after contracts have been
\* recorded, parse() raises nothing and returns the contracts recorded
\* before the failure
C16_partial_result_on_failure ==
  pc = "parsed" =>
    /\ ~parse_result.raised
    /\ Spans(parse_result.value) = Spans(contracts)

\* the fragment at which the brace opened by the declaration at fragment a
\* closes: the first fragment from a on at which the depth, counted from the
\* declaration, is back at zero
ClosingFragment(text, a) ==
  Min({b \in a..Len(Fragments(text)) : Depth(Fragments(text), a, b) = 0})

\* C17: the brace-depth scan for a contract starts at its declaration:
\* braces before the declaration on its line are not counted, and the
\* recorded span ends where the depth first returns to zero; so a
\* declaration behind another construct's closing brace on its line is
\* recorded, with the span ending at its own closing brace
C17_scan_starts_at_declaration ==
  pc = "parsed" =>
    \A a \in Declarations(lines) :
      Closes(lines, a) =>
        \E c \in 1..Len(parse_result.value) :
          /\ parse_result.value[c].name = contract_pattern(Fragments(lines)[a].tok)
          /\ parse_result.value[c].line_start = Fragments(lines)[a].line
          /\ parse_result.value[c].line_end =
               Fragments(lines)[ClosingFragment(lines, a)].line

\* the function signatures of a text: indices into its fragments
Signatures(text) ==
  {h \in 1..Len(Fragments(text)) : function_pattern(Fragments(text)[h].tok) # ""}

\* C18: a recorded function, whatever the depth of the blocks nested in its
\* body, ends on the line of the closing brace that matches the opening
\* brace of its signature, and that brace lies inside the contract's span:
\* a function whose depth never returns to zero there is not recorded
C18_function_ends_at_matching_brace ==
  pc = "parsed" =>
    \A n \in 1..Len(FuncsOf(parse_result.value)) :
      LET func == FuncsOf(parse_result.value)[n].func
          contract == FuncsOf(parse_result.value)[n].contract
      IN  \E h \in Signatures(lines) :
            /\ Fragments(lines)[h].line = func.line_start
            /\ function_pattern(Fragments(lines)[h].tok) = func.name
            /\ Closes(lines, h)
            /\ Fragments(lines)[ClosingFragment(lines, h)].line = func.line_end
            /\ func.line_end <= contract.line_end

\* C19: the check-effects-interactions check takes the external calls to be
\* the matches of the missing-guard check's pattern (.call, .send, .transfer
\* or .delegatecall, with or without a {...} clause): every such match that
\* a state-variable write follows in the body of a function that is neither
\* view nor pure, a .delegatecall( included, has a CRITICAL "External Call
\* Before State Update" finding on its line
C19_cei_uses_guard_pattern ==
  det > 1 =>
    \A n \in 1..Len(FuncsOf(parse_result.value)) :
      LET func == FuncsOf(parse_result.value)[n].func
          contract == FuncsOf(parse_result.value)[n].contract
          calls == TextMatches(<<"external_call_re">>, func.body)
          writes == WritePositions(func.body,
                      [v \in 1..Len(contract.state_variables) |->
                         contract.state_variables[v].name])
      IN  \A c \in 1..Len(calls) :
            (/\ ~func.is_view
             /\ ~func.is_pure
             /\ \E w \in 1..Len(writes) : calls[c] < writes[w].pos)
            => \E i \in 1..Len(findings[1]) :
                 /\ findings[1][i].severity = "CRITICAL"
                 /\ findings[1][i].title =
                      "Reentrancy Vulnerability: External Call Before State Update"
                 /\ findings[1][i].function_name = func.name
                 /\ findings[1][i].line_number =
                      func.line_start + NewlinesBefore(func.body, calls[c])

\* C20: ValidationDetector emits MEDIUM "Missing Input Validation" for a
\* function that is neither view nor pure exactly when its signature
\* declares a parameter, its body without the // and /* */ comments holds an
\* assignment or an external call, and its body without the comments holds
\* none of require(, revert(, assert(; text inside comments changes neither
\* test
C20_missing_validation_ignores_comments ==
  det > 2 =>
    \A n \in 1..Len(FuncsOf(parse_result.value)) :
      LET func == FuncsOf(parse_result.value)[n].func
          stripped == body_without_comments(func.body)
          changes == \E k \in 1..Len(stripped) :
                       state_change_or_call_re(stripped[k]) # <<>>
          validates == \E k \in 1..Len(stripped) : validation_re(stripped[k]) # <<>>
          emitted == FindingsFor(2, "Missing Input Validation", func)
      IN  /\ Cardinality(emitted) =
               (IF /\ ~func.is_view
                   /\ ~func.is_pure
                   /\ ~NoParameters(func)
                   /\ changes
                   /\ ~validates
                THEN 1 ELSE 0)
          /\ \A i \in emitted : findings[2][i].severity = "MEDIUM"

\* the statements of the inputs that assign: their "=" is not part of a
\* comparison operator
Assigning == {"x = 1;", "y += v;", "o = msg.sender;"}

\* C21: for a function that is neither view nor pure, ReentrancyDetector
\* emits MEDIUM "Potential Reentrancy via Fallback" exactly when the
\* function is public or external, payable, its body holds an assignment
\* and no require(...msg.sender...); a "=" that belongs to ==, >=, <= or !=
\* is no assignment
C21_fallback_needs_assignment ==
  det > 1 =>
    \A n \in 1..Len(FuncsOf(parse_result.value)) :
      LET func == FuncsOf(parse_result.value)[n].func
          assigns == \E l \in 1..Len(func.body) : \E k \in 1..Len(func.body[l]) :
                       func.body[l][k] \in Assigning
          emitted == FindingsFor(1, "Potential Reentrancy via Fallback", func)
      IN  (~func.is_view /\ ~func.is_pure) =>
            /\ Cardinality(emitted) =
                 (IF /\ func.visibility \in {"public", "external"}
                     /\ func.is_payable
                     /\ assigns
                     /\ ~require_msg_sender(func.body)
                  THEN 1 ELSE 0)
            /\ \A i \in emitted : findings[1][i].severity = "MEDIUM"

\* C22: BadPatternsDetector emits one HIGH "Use of tx.origin" finding for
\* every occurrence of tx.origin in the source that no "//" or "/*" precedes
\* on its line, so two findings for a line that uses tx.origin twice in code
C22_tx_origin_per_occurrence ==
  det > 3 =>
    \A l \in 1..Len(lines) :
      LET emitted == {i \in 1..Len(findings[3]) :
                        /\ findings[3][i].title = "Use of tx.origin"
                        /\ findings[3][i].line_number = l}
      IN  /\ Cardinality(emitted) = Cardinality(OpenOccurrences(lines[l], "tx.origin"))
          /\ \A i \in emitted : findings[3][i].severity = "HIGH"

\* C23: for each function whose body matches .delegatecall(,
\* InsecureCallsDetector emits exactly one "Unsafe delegatecall Usage"
\* finding, CRITICAL if the body also holds msg.data, msg.sender or
\* abi.decode and HIGH otherwise, whose line number is the line of the
\* first delegatecall match; a function without a match gets none
C23_delegatecall_finding_at_match ==
  det > 4 =>
    \A n \in 1..Len(FuncsOf(parse_result.value)) :
      LET func == FuncsOf(parse_result.value)[n].func
          calls == TextMatches(<<"delegatecall_re">>, func.body)
          emitted == {i \in 1..Len(findings[4]) :
                        /\ findings[4][i].title = "Unsafe delegatecall Usage"
                        /\ findings[4][i].function_name = func.name}
      IN  IF calls = <<>> THEN emitted = {}
          ELSE /\ Cardinality(emitted) = 1
               /\ \A i \in emitted :
                    /\ findings[4][i].severity =
                         (IF TextMatches(<<"user_input_re">>, func.body) # <<>>
                          THEN "CRITICAL" ELSE "HIGH")
                    /\ findings[4][i].line_number =
                         func.line_start + NewlinesBefore(func.body, calls[1])

\* the text sub, of which the pattern needs the first len characters, stands
\* in the window characters of body that begin at offset from
Within(sub, len, body, from, window) ==
  \E n \in 1..Len(TextMatches(<<"in", sub>>, body)) :
    /\ from <= TextMatches(<<"in", sub>>, body)[n]
    /\ TextMatches(<<"in", sub>>, body)[n] + len <= from + window

\* C24: for every <ident>.(call|send|delegatecall)( occurrence in a function
\* body InsecureCallsDetector emits one MEDIUM "Unchecked Return Value from
\* External Call" finding at the call's line if and only if no (bool <name>
\* stands in the 200 characters that begin at the call and no require( in
\* the 500 characters that begin at the call; a require( further away does
\* not suppress the finding
C24_unchecked_return_windows ==
  det > 4 =>
    \A n \in 1..Len(FuncsOf(parse_result.value)) :
      LET func == FuncsOf(parse_result.value)[n].func
          calls == TextMatches(<<"unchecked_call_pattern">>, func.body)
          unchecked == {c \in 1..Len(calls) :
                          /\ ~Within("(bool ", 7, func.body, calls[c], 200)
                          /\ ~Within("require(", 8, func.body, calls[c], 500)}
          emitted == {i \in 1..Len(findings[4]) :
                        /\ findings[4][i].title =
                             "Unchecked Return Value from External Call"
                        /\ findings[4][i].function_name = func.name}
      IN  /\ Cardinality(emitted) = Cardinality(unchecked)
          /\ \A i \in emitted : findings[4][i].severity = "MEDIUM"
          /\ \A c \in unchecked : \E i \in emitted :
               findings[4][i].line_number =
                 func.line_start + NewlinesBefore(func.body, calls[c])
          /\ \A i \in emitted : \E c \in unchecked :
               findings[4][i].line_number =
                 func.line_start + NewlinesBefore(func.body, calls[c])

\* C24: a call followed by a require( more than 500 characters away, with a
\* finding on the call's line, which is not the signature's
C24_witness_far_require ==
  /\ det > 4
  /\ \E n \in 1..Len(FuncsOf(parse_result.value)) :
       LET func == FuncsOf(parse_result.value)[n].func
           calls == TextMatches(<<"unchecked_call_pattern">>, func.body)
           reqs == TextMatches(<<"in", "require(">>, func.body)
       IN  /\ Len(calls) = 1
           /\ \E r \in 1..Len(reqs) : reqs[r] > calls[1] + 500
           /\ \E i \in 1..Len(findings[4]) :
                /\ findings[4][i].title = "Unchecked Return Value from External Call"
                /\ findings[4][i].line_number > func.line_start

\* the signatures that declare the function view or pure
DeclaredViewOrPure ==
  {"function h(uint v) public view returns (uint) {",
   "function p(uint v) public pure returns (uint) {"}

\* C25: ReentrancyDetector analyses every function that is not declared
\* view or pure: the findings it returns for such a function are those of
\* its four checks, also when the letters of view or pure occur in the
\* function's name; a function declared view or pure gets none
C25_skipped_only_by_keyword ==
  det > 1 =>
    \A n \in 1..Len(FuncsOf(parse_result.value)) :
      LET func == FuncsOf(parse_result.value)[n].func
          contract == FuncsOf(parse_result.value)[n].contract
          declared == \E k \in 1..Len(lines[func.line_start]) :
                        lines[func.line_start][k] \in DeclaredViewOrPure
      IN  SelectSeq(findings[1], LAMBDA f : f.function_name = func.name)
            = IF declared THEN <<>>
              ELSE _check_missing_guard(func, contract)
                   \o _check_cei_violation(func, contract)
                   \o _check_deprecated_calls(func)
                   \o _check_fallback_vectors(func)

\* C29: when parse() returns no contract for a non-empty text, scan_file
\* returns 0 with no detector run and no finding collected, whatever the
\* text holds, tx.origin and address literals included
C29_no_contract_no_findings ==
  (pc = "done" /\ parse_result.value = <<>>) =>
    /\ exit_code = 0
    /\ det = 1
    /\ all_findings = <<>>
    /\ \A d \in 1..NumDetectors : findings[d] = <<>>

\* C29: scan_file has returned 0 for a text without a contract that uses
\* tx.origin and holds an address literal
C29_witness_patterns_outside_contract ==
  /\ pc = "done"
  /\ parse_result.value = <<>>
  /\ exit_code = 0
  /\ \E l \in 1..Len(lines) : LineMatches(<<"tx_origin_re">>, lines[l]) # <<>>
  /\ \E l \in 1..Len(lines) : AddressMatches(lines[l]) # <<>>

\* C28: a second parse() call on the same parser returns the model the
\* first call returned, with the same contracts, functions, state variables
\* and modifiers, and leaves the entities the first call returned as they
\* were
C28_second_parse_same_model ==
  (pc = "parsed" /\ parse_calls = 2) =>
    /\ parse_result.value = first_parse
    /\ SubSeq(contracts, 1, Len(first_parse)) = first_parse

\* C30 as stated: main returns a nonzero exit code exactly when at least
\* one file's scan_file returned nonzero
C30_nonzero_iff_some_file_nonzero ==
  main_pc = "returned" =>
    (main_exit # 0 <=> \E k \in 1..Len(results) : results[k] # 0)

\* C30, amended: over a sequence of at least one file main returns a nonzero
\* exit code exactly when some file's scan_file returned nonzero, a later
\* file that returns 0 never resets the exit code, and every file of the
\* sequence has been scanned when main returns
C30_nonzero_iff_some_file_nonzero_nonempty ==
  /\ sol_files # <<>> =>
       /\ Len(results) <= Len(sol_files)
       /\ main_exit # 0 <=> \E k \in 1..Len(results) : results[k] # 0
       /\ main_pc = "returned" => Len(results) = Len(sol_files)
  /\ (sol_files = <<>> /\ main_pc = "returned") => main_exit = 1

\* a file with a nonzero result was followed by files with result 0, all
\* files were scanned and main returned nonzero
C30_witness_zero_after_nonzero ==
  /\ main_pc = "returned"
  /\ Len(results) = MaxFiles
  /\ results[1] # 0
  /\ results[2] = 0
  /\ results[MaxFiles] = 0
  /\ main_exit # 0

\* C26: whenever detect() calls are made one after the other on one
\* detector object, the list every finished call returned holds exactly the
\* findings of that call's document, then and at every later moment
C26_detect_depends_on_arguments_only ==
  \A i \in 1..Len(invocations) :
    invocations[i].pc = "done" =>
      heap[invocations[i].ret] = DetectOn(det, invocations[i].source)

\* a second call on another document returned other findings while the
\* first call's list, which is not empty, is as it was returned
C26_witness_second_call ==
  /\ Len(invocations) >= 2
  /\ invocations[1].pc = "done" /\ invocations[2].pc = "done"
  /\ invocations[1].source # invocations[2].source
  /\ heap[invocations[1].ret] # <<>>
  /\ heap[invocations[2].ret] # <<>>
  /\ heap[invocations[1].ret] # heap[invocations[2].ret]

\* C27: when two detect() calls on different documents interleave on one
\* detector object, each returns exactly the findings of its own document
C27_interleaved_calls_keep_own_findings ==
  \A i \in 1..Len(invocations) :
    (invocations[i].pc = "done" /\ Len(invocations) >= 2
       /\ invocations[1].source # invocations[2].source) =>
      heap[invocations[i].ret] = DetectOn(det, invocations[i].source)
====
